---------------------------- MODULE Spec2Model ----------------------------
(***************************************************************************)
(* Model of the hotspot lifecycle orchestrator of linux-hotspot-enabler    *)
(* (src/src/hotspot.c, with the helpers of net_utils.c and the callers in  *)
(* tui.c and main.c).  The program is single threaded: `pc` is the place   *)
(* the one thread of control has reached, "idle" meaning that no lifecycle *)
(* call is in progress.  The kernel, the daemons and the file system are   *)
(* the environment: their answers are nondeterministic choices.            *)
(***************************************************************************)
EXTENDS Integers, Sequences, FiniteSets, Bags, TLC

VARIABLES
    status,      \* HotspotStatus: state, config, wifi, ap_iface, pids, ...
    pc,          \* position of the thread of control
    ret,         \* who called hotspot_cleanup: "start", "stop", "main_stop"
                 \* (hotspot_stop called by main) or "main"
    idx,         \* loop index i of create_ap_interface (1-based)
    loc,         \* locals of start_hostapd
    ifaces,      \* wireless interfaces the kernel knows
    addrs,       \* interfaces that carry the gateway address
    alive,       \* supervised daemons that are running
    rules,       \* bag of iptables rules (nat POSTROUTING and FORWARD)
    ip_forward,  \* /proc/sys/net/ipv4/ip_forward
    files,       \* temporary files under /tmp that exist
    leases,      \* number of lines of the lease file
    nm_conf,     \* interface named by the NetworkManager override, or NoFile
    air,         \* channel of the client link as iw reports it, 0 when none
    host,        \* the host as the program found it: the interface names the
                 \* driver refuses, the forwarding flag and the iptables rules
    hconf,       \* content of the generated hostapd configuration
    op,          \* history: the lifecycle call in progress or last returned
    signals,     \* history: signals delivered by the last step
    snap,        \* history: the system right before the last start()
    neg,         \* history: the start_hostapd in progress: config.channel at
                 \* its entry and the hostapd launches made
    disk,        \* the files whose content the helpers read or write: the
                 \* lines of the lease file, the persisted config and the
                 \* temporary file of a save
    call,        \* the helper call in progress or last returned: its name,
                 \* its position, its arguments and its result
    tui          \* the flags the signal handlers write and the event loop
                 \* reads: tui->running, g_shutdown, g_resize

envVars == <<ifaces, addrs, alive, rules, ip_forward, files, leases, nm_conf, air, host, disk, call, tui, hconf>>
ctlVars == <<pc, ret, idx, loc>>
histVars == <<op, signals, snap, neg>>
vars == <<status, pc, ret, idx, loc, ifaces, addrs, alive, rules, ip_forward,
          files, leases, nm_conf, air, host, disk, call, tui, hconf, op, signals, snap, neg>>

---------------------------------------------------------------------------
(* Bounds of the model *)

\* lines the DHCP daemon may write to its lease file
MaxLeases == 1
\* calls of hotspot_start in one run of the program
MaxStarts == 2

(* Program constants *)

MAX_CLIENTS == 64

\* channels the client radio may be tuned to (0: not associated)
Channels == {0, 6, 149}

\* values typed into the channel field of the config editor
EditChannels == {0, 6, 14, 32, 149}

\* the sets of AP interface names that are in use and cannot be taken: none,
\* the first candidate, or all of them
BusySets == {{}, {"ap0"}, {"ap0", "ap1", "ap2", "ap3"}}

WifiName == "wlan0"
ap_names == <<"ap0", "ap1", "ap2", "ap3">>
num_names == Len(ap_names)
ApNames == {ap_names[k] : k \in 1..num_names}

AP_IFACE_NAME == "ap0"
NoFile == "none"

HOSTAPD_CONF_PATH == "hostapd.conf"
DNSMASQ_CONF_PATH == "dnsmasq.conf"
DNSMASQ_LEASE_FILE == "dnsmasq.leases"
HOSTAPD_LOG_PATH == "hostapd.log"
DNSMASQ_PID_FILE == "dnsmasq.pid"
DNSMASQ_LOG_FILE == "dnsmasq.log"
TempFiles == {HOSTAPD_CONF_PATH, DNSMASQ_CONF_PATH, DNSMASQ_LEASE_FILE,
              HOSTAPD_LOG_PATH, DNSMASQ_PID_FILE, DNSMASQ_LOG_FILE}

Daemons == {"hostapd", "dnsmasq"}
\* process ids: one per supervised daemon
PidOf(d) == IF d = "hostapd" THEN 1 ELSE 2
DaemonsWithPid(p) == {d \in Daemons : PidOf(d) = p}

States == {"Stopped", "Starting", "Running", "Error", "Stopping"}

---------------------------------------------------------------------------
(* Strings are sequences of tokens; "\n" is the newline token. *)

NL == "\n"
EmptyStr == << >>
COULD_NOT_SELECT == "Could not select"

\* what the two grep/tail commands of try_hostapd_once may read back
LogOutputs == { EmptyStr,
                <<COULD_NOT_SELECT, " hardware mode and channel", NL>>,
                <<"FAIL", NL, "Error", NL>> }

\* strstr(s, tok) != NULL
StrStr(s, tok) == \E k \in 1..Len(s) : s[k] = tok

\* for (p = log_output; *p; p++) if (*p == '\n') *p = ' ';
CollapseNewlines(s) == [k \in 1..Len(s) |-> IF s[k] = NL THEN " " ELSE s[k]]

MsgNoWifi == <<"No WiFi interface detected.">>
MsgNoPhy == <<"Cannot determine physical WiFi device.">>
MsgCreateFailed == <<"Failed to create virtual AP interface. All names (ap0-ap3) are in use or your driver doesn't support AP/STA concurrency.">>
MsgHostapdConf == <<"Failed to generate hostapd configuration.">>
MsgDnsmasqConf == <<"Failed to generate dnsmasq configuration.">>
MsgDnsmasqStart == <<"Failed to start dnsmasq. Port 53 may be in use.">>
MsgNat == <<"Failed to configure NAT forwarding.">>
MsgHostapdDied == <<"hostapd process died unexpectedly.">>
MsgDnsmasqDied == <<"dnsmasq process died unexpectedly.">>
MsgNo5GHz(ch) == <<"AP not supported on 5GHz (ch ", ToString(ch), ") or 2.4GHz by this driver. Try connecting to a 2.4GHz WiFi network first.">>
MsgHostapdFailed(log) == <<"hostapd failed: ">> \o log

---------------------------------------------------------------------------
(* iptables rules.  A rule names the interfaces it was built from; a       *)
(* command built from an empty interface name is malformed and does        *)
(* nothing.                                                                *)

Masquerade(wifi) == [kind |-> "MASQUERADE", in |-> "", out |-> wifi]
ForwardEstablished(wifi, ap) == [kind |-> "ACCEPT_ESTABLISHED", in |-> wifi, out |-> ap]
ForwardAccept(ap, wifi) == [kind |-> "ACCEPT", in |-> ap, out |-> wifi]

NatRules(wifi, ap) == {Masquerade(wifi), ForwardEstablished(wifi, ap), ForwardAccept(ap, wifi)}

\* iptables -A: appends one more copy of the rule; the command fails on a
\* host whose netfilter tables cannot be written, and for an empty name
IptablesAppend(bag, r, wifi) ==
    IF wifi = "" \/ ~host.netfilter THEN bag ELSE bag (+) SetToBag({r})
\* iptables -D: deletes one copy of the rule, fails when there is none
IptablesDelete(bag, r, wifi) ==
    IF wifi = "" \/ ~host.netfilter THEN bag ELSE bag (-) SetToBag({r})


---------------------------------------------------------------------------
(* Pure helpers of hotspot.c *)

\* a band test that leaves channel 32 in the 2.4 GHz band
is_5ghz_channel_above(ch) == ch > 32

\* static bool is_5ghz_channel(int ch)
is_5ghz_channel(ch) == ch >= 32

\* a resolution that never looks at the client's channel
ResolveChannelNoAuto(cfg_channel, wifi_channel) ==
    IF cfg_channel = 0 THEN 6 ELSE cfg_channel

\* the channel generate_hostapd_conf writes: the configured one, else the
\* client's, else 6
ResolveChannel(cfg_channel, wifi_channel) ==
    IF cfg_channel = 0
    THEN (IF wifi_channel <= 0 THEN 6 ELSE wifi_channel)
    ELSE cfg_channel

NoConf == [exists |-> FALSE]

\* generate_hostapd_conf(status, minimal): the file it writes
generate_hostapd_conf(st, minimal) ==
    LET channel == ResolveChannel(st.config.channel, st.wifi.channel)
        use_5ghz == is_5ghz_channel(channel)
    IN  [ exists |-> TRUE,
          interface |-> st.ap_iface,
          hw_mode |-> IF use_5ghz THEN "a" ELSE "g",
          channel |-> channel,
          wmm_enabled |-> IF use_5ghz THEN 1 ELSE 0,
          ieee80211n |-> ~minimal,
          ieee80211ac |-> (~minimal /\ use_5ghz) ]

\* kill_process without its first line (if (pid <= 0) return): kill(0, SIGTERM)
\* signals the process group of the caller
kill_process_unguarded(pid, name, exits) ==
    LET target == DaemonsWithPid(pid) \cap alive
        byName == {d \in Daemons : d = name}
        self == IF pid <= 0 THEN {<<"self", "TERM">>} ELSE {}
    IN  IF target # {} /\ exits
        THEN [alive |-> alive \ target,
              signals |-> {<<d, "TERM">> : d \in target}]
        ELSE [alive |-> (alive \ target) \ byName,
              signals |-> self \cup {<<d, "TERM">> : d \in target}
                          \cup {<<d, "KILL">> : d \in target}
                          \cup {<<d, "KILL">> : d \in (alive \ target) \cap byName}]

\* kill_process(pid, name): what is left alive and the signals delivered.
\* `exits` says whether a process that got SIGTERM ends within the 30 polls.
\* kill(pid, SIGTERM) succeeds when the process is alive; pkill -9 <name>
\* follows when it failed or the polls ran out.
kill_process(pid, name, exits) ==
    LET target == DaemonsWithPid(pid) \cap alive
        byName == {d \in Daemons : d = name}
    IN  IF pid <= 0 THEN [alive |-> alive, signals |-> {}]
        ELSE IF target # {} /\ exits
        THEN [alive |-> alive \ target,
              signals |-> {<<d, "TERM">> : d \in target}]
        ELSE [alive |-> (alive \ target) \ byName,
              signals |-> {<<d, "TERM">> : d \in target}
                          \cup {<<d, "KILL">> : d \in target}
                          \cup {<<d, "KILL">> : d \in (alive \ target) \cap byName}]

---------------------------------------------------------------------------
(* Initial state: hotspot_init, then main()'s interface detection. *)

DefaultConfig == [channel |-> 0]

NoLoc == [client_channel |-> 0, is_5ghz |-> FALSE, channel_rejected |-> FALSE,
          saved_channel |-> 0, log_output |-> EmptyStr]

NoOp == [name |-> "none", from |-> "Stopped", err0 |-> EmptyStr,
         done |-> TRUE, ok |-> TRUE, at |-> "none"]

NoNeg == [entry |-> 0, tries |-> << >>]

\* a file that does not exist
Missing == [exists |-> FALSE]

\* no lease file, no persisted config, no temporary file of a save
NoDisk == [lease |-> Missing, config |-> Missing, tmp |-> Missing]

\* no helper call made yet
NoCall == [name |-> "none"]

NoSnap == [cycle |-> "none", ip_forward |-> 0, rules |-> EmptyBag, starts |-> 0]

\* the snapshot is kept for a start() made in state Stopped, until the stop()
\* that follows it has returned; when refresh() moved that run to Error, it is
\* kept through the start() made in state Error and the stop() after it
EndCycle == [NoSnap EXCEPT !.starts = snap.starts]

\* the snapshot when a start() returns failure
EndStart == IF snap.cycle = "restarting" THEN [snap EXCEPT !.cycle = "restarted"]
                                         ELSE EndCycle

hotspot_init ==
    [ state |-> "Stopped",
      config |-> DefaultConfig,
      wifi |-> [name |-> "", channel |-> 0],
      ap_iface |-> AP_IFACE_NAME,
      hostapd_pid |-> 0,
      dnsmasq_pid |-> 0,
      ip_forward_was_enabled |-> FALSE,
      error_msg |-> EmptyStr,
      start_time |-> 0,
      client_count |-> 0 ]

\* the hosts of the lifecycle specification: iptables works on all of them;
\* a driver without AP/STA concurrency comes with free names
Hosts == {h \in [busy : BusySets, ap_support : BOOLEAN, ip_forward : {0, 1},
                 rules : {EmptyBag, SetToBag({Masquerade(WifiName)})},
                 netfilter : {TRUE},
                 nm_dir : {TRUE}] : h.ap_support \/ h.busy = {}}

\* tui_init: running = true; the two flags are zero-initialised globals
tui_init == [running |-> TRUE, g_shutdown |-> 0, g_resize |-> 0]

InitWith(hosts) ==
    /\ air \in Channels
    /\ status = [hotspot_init EXCEPT !.wifi = [name |-> WifiName, channel |-> air]]
    /\ pc = "idle"
    /\ ret = "none"
    /\ idx = 0
    /\ loc = NoLoc
    /\ ifaces = {WifiName}
    /\ addrs = {}
    /\ alive = {}
    /\ host \in hosts
    /\ rules = host.rules
    /\ ip_forward = host.ip_forward
    /\ files = {}
    /\ leases = 0
    /\ nm_conf = NoFile
    /\ hconf = NoConf
    /\ op = NoOp
    /\ signals = {}
    /\ snap = NoSnap
    /\ neg = NoNeg
    /\ call = NoCall
    /\ tui = tui_init

Init == InitWith(Hosts) /\ disk = NoDisk

---------------------------------------------------------------------------
(* Returning from a lifecycle call *)

\* The history of a call is kept while the call runs and in the state it
\* returns to; the next step of the TUI or of the environment forgets it.
\* The snapshot of a start() made in state Stopped lasts until the stop()
\* that follows it has returned.
Forget == /\ op' = NoOp
          /\ signals' = {}
          /\ snap' = IF snap.cycle \in {"running", "restarted"} THEN snap
                                                                ELSE EndCycle
          /\ UNCHANGED neg

Return(ok) == /\ pc' = CASE ret = "main_stop" -> "main_exit"
                          [] ret = "main" -> "exited"
                          [] OTHER -> "idle"
              /\ ret' = "none"
              /\ idx' = 0
              /\ loc' = NoLoc
              /\ op' = [op EXCEPT !.done = TRUE, !.ok = ok, !.at = pc]

\* a failure path of hotspot_start that runs hotspot_cleanup before it returns
FailWithCleanup == /\ pc' = "cl_hostapd"
                   /\ ret' = "start"
                   /\ idx' = 0
                   /\ loc' = NoLoc

Goto(next) == pc' = next /\ UNCHANGED <<ret, idx, loc>>

---------------------------------------------------------------------------
(* hotspot_start *)

\* variant of StartEntry that leaves the message of the last failure in place
StartEntryKeepMsg(st) == [st EXCEPT !.state = "Starting"]

\* lines 766-767
StartEntry(st) == [st EXCEPT !.state = "Starting", !.error_msg = EmptyStr]

\* hotspot_start up to its first step; the TUI calls it in state Stopped or
\* Error only
hotspot_start ==
    /\ pc = "idle"
    /\ status.state \in {"Stopped", "Error"}
    /\ snap.starts < MaxStarts
    /\ status' = StartEntry(status)
    /\ Goto("detect")
    /\ op' = [name |-> "start", from |-> status.state, err0 |-> EmptyStr,
              done |-> FALSE, ok |-> FALSE, at |-> "none"]
    /\ signals' = {}
    /\ snap' = IF status.state = "Stopped"
               THEN [cycle |-> "starting", ip_forward |-> ip_forward,
                     rules |-> rules, starts |-> snap.starts + 1]
               ELSE IF snap.cycle = "running"
               THEN [snap EXCEPT !.cycle = "restarting", !.starts = snap.starts + 1]
               ELSE [NoSnap EXCEPT !.starts = snap.starts + 1]
    /\ neg' = NoNeg
    /\ UNCHANGED envVars

\* net_detect_wifi_interface: the wireless interfaces it may return
DetectCandidates == ifaces \ {"ap0"}

\* 1. Detect WiFi interface
StartDetect ==
    /\ pc = "detect"
    /\ \/ /\ DetectCandidates = {}
          /\ status' = [status EXCEPT !.wifi = [name |-> "", channel |-> 0],
                                      !.error_msg = MsgNoWifi,
                                      !.state = "Error"]
          /\ Return(FALSE)
          /\ snap' = EndStart
       \/ /\ \E n \in DetectCandidates :
                status' = [status EXCEPT !.wifi = [name |-> n, channel |-> air]]
          /\ Goto("phy")
          /\ UNCHANGED <<op, snap>>
    /\ UNCHANGED <<envVars, signals, neg>>

\* 2. Get PHY name: reading /sys/class/net/<name>/phy80211/name may fail
StartPhy ==
    /\ pc = "phy"
    /\ \E ok \in BOOLEAN :
         IF ok
         THEN /\ Goto("create")
              /\ UNCHANGED <<status, op, snap>>
         ELSE /\ status' = [status EXCEPT !.error_msg = MsgNoPhy, !.state = "Error"]
              /\ Return(FALSE)
              /\ snap' = EndStart
    /\ UNCHANGED <<envVars, signals, neg>>

---------------------------------------------------------------------------
(* create_ap_interface *)

\* pkill hostapd; pkill -f 'dnsmasq.*hotspot_enabler'
CreateKill ==
    /\ pc = "create"
    /\ alive' = {}
    /\ signals' = {<<d, "TERM">> : d \in alive}
    /\ pc' = "create_remove"
    /\ idx' = 1
    /\ UNCHANGED <<status, ret, loc, ifaces, addrs, rules, ip_forward, files,
                   leases, nm_conf, air, host, disk, call, tui, hconf, op, snap, neg>>

\* variant of force_remove_interface: a removal that leaves the interface
force_remove_interface_kept(name) == ifaces

\* force_remove_interface(try_name): iw dev <name> del when the name exists
force_remove_interface(name) == ifaces \ {name}

CreateRemove ==
    /\ pc = "create_remove"
    /\ ifaces' = force_remove_interface(ap_names[idx])
    /\ addrs' = addrs \cap ifaces'
    /\ Goto("create_nm")
    /\ UNCHANGED <<status, alive, rules, ip_forward, files, leases, nm_conf,
                   air, host, disk, call, tui, hconf, histVars>>

\* fopen(NM_UNMANAGED_CONF, "w") and what it writes: on a host without
\* /etc/NetworkManager/conf.d the fopen fails and nothing is written
WriteUnmanaged(name) == IF host.nm_dir THEN name ELSE nm_conf

CreateNm ==
    /\ pc = "create_nm"
    /\ nm_conf' = WriteUnmanaged(ap_names[idx])
    /\ Goto("create_add")
    /\ UNCHANGED <<status, ifaces, addrs, alive, rules, ip_forward, files,
                   leases, air, host, disk, call, tui, hconf, histVars>>

\* iw dev <wifi> interface add <try_name> type __ap: needs the client
\* interface, a free name and a driver with AP/STA concurrency
CanCreate(name) ==
    /\ host.ap_support
    /\ status.wifi.name \in ifaces /\ name \notin ifaces /\ name \notin host.busy

CreateAdd ==
    /\ pc = "create_add"
    /\   IF CanCreate(ap_names[idx])
         THEN /\ ifaces' = ifaces \cup {ap_names[idx]}
              /\ status' = [status EXCEPT !.ap_iface = ap_names[idx]]
              /\ Goto("create_unmanage")
              /\ UNCHANGED <<op, snap>>
         ELSE IF idx < num_names
         THEN /\ idx' = idx + 1
              /\ pc' = "create_remove"
              /\ UNCHANGED <<status, ifaces, ret, loc, op, snap>>
         ELSE /\ status' = [status EXCEPT !.error_msg = MsgCreateFailed,
                                          !.state = "Error"]
              /\ Return(FALSE)
              /\ snap' = EndStart
              /\ UNCHANGED ifaces
    /\ UNCHANGED <<addrs, alive, rules, ip_forward, files, leases, nm_conf,
                   air, host, disk, call, tui, hconf, signals, neg>>

\* nm_unmanage_interface(status->ap_iface)
CreateUnmanage ==
    /\ pc = "create_unmanage"
    /\ nm_conf' = WriteUnmanaged(status.ap_iface)
    /\ Goto("gen_hostapd")
    /\ UNCHANGED <<status, ifaces, addrs, alive, rules, ip_forward, files,
                   leases, air, host, disk, call, tui, hconf, histVars>>

---------------------------------------------------------------------------
(* 4. Generate configs: fopen of either file may fail *)

GenHostapdConf ==
    /\ pc = "gen_hostapd"
    /\ \E ok \in BOOLEAN :
         IF ok
         THEN /\ hconf' = generate_hostapd_conf(status, FALSE)
              /\ files' = files \cup {HOSTAPD_CONF_PATH}
              /\ Goto("gen_dnsmasq")
              /\ UNCHANGED status
         ELSE /\ status' = [status EXCEPT !.error_msg = MsgHostapdConf,
                                          !.state = "Error"]
              /\ FailWithCleanup
              /\ UNCHANGED <<hconf, files>>
    /\ UNCHANGED <<ifaces, addrs, alive, rules, ip_forward, leases, nm_conf,
                   air, host, disk, call, tui, histVars>>

GenDnsmasqConf ==
    /\ pc = "gen_dnsmasq"
    /\ \E ok \in BOOLEAN :
         IF ok
         THEN /\ files' = files \cup {DNSMASQ_CONF_PATH}
              /\ Goto("start_hostapd")
              /\ UNCHANGED status
         ELSE /\ status' = [status EXCEPT !.error_msg = MsgDnsmasqConf,
                                          !.state = "Error"]
              /\ FailWithCleanup
              /\ UNCHANGED files
    /\ UNCHANGED <<ifaces, addrs, alive, rules, ip_forward, leases, nm_conf,
                   air, host, disk, call, tui, hconf, histVars>>

---------------------------------------------------------------------------
(* 5. start_hostapd *)

\* lines 624-625
StartHostapdEnter ==
    /\ pc = "start_hostapd"
    /\ loc' = [NoLoc EXCEPT !.client_channel = status.wifi.channel,
                            !.is_5ghz = is_5ghz_channel(status.wifi.channel)]
    /\ pc' = "phase1"
    /\ neg' = [entry |-> status.config.channel, tries |-> << >>]
    /\ UNCHANGED <<status, ret, idx, envVars, op, signals, snap>>

\* what one launch of hostapd may come to: the daemon is found running,
\* the launch command succeeds but pidof finds nothing, or the command fails
TryOutcomes == {"running", "no_pid", "launch_failed"}

\* status->hostapd_pid after try_hostapd_once: pidof's answer is stored
\* only when the launch command succeeded
TryPid(outcome) ==
    IF outcome = "running" THEN PidOf("hostapd")
    ELSE IF outcome = "no_pid" THEN 0
    ELSE status.hostapd_pid

\* generate_hostapd_conf(status, minimal) followed by try_hostapd_once: the
\* environment they leave.  A failed attempt ends with pkill hostapd.
TryHostapdOnce(minimal, outcome) ==
    /\ hconf' = generate_hostapd_conf(status, minimal)
    /\ files' = files \cup {HOSTAPD_CONF_PATH, HOSTAPD_LOG_PATH}
    /\ alive' = IF outcome = "running" THEN alive \cup {"hostapd"}
                                       ELSE alive \ {"hostapd"}
    /\ neg' = [neg EXCEPT !.tries = Append(@, [channel |-> hconf'.channel,
                                                minimal |-> minimal,
                                                ok |-> outcome = "running"])]
    /\ UNCHANGED <<ifaces, addrs, rules, ip_forward, leases, nm_conf, air, host, disk, call, tui,
                   op, signals, snap, ret, idx>>

\* variant of Phase1: an attempt that counts as success as soon as the launch
\* command reported success, with no look at the process id
Phase1Trusting ==
    /\ pc = "phase1"
    /\ \E outcome \in TryOutcomes, log \in LogOutputs :
         /\ TryHostapdOnce(FALSE, outcome)
         /\ status' = [status EXCEPT !.hostapd_pid = TryPid(outcome)]
         /\ IF outcome # "launch_failed"
            THEN pc' = "assign_ip" /\ loc' = NoLoc
            ELSE /\ loc' = [loc EXCEPT !.log_output = log,
                                       !.channel_rejected = StrStr(log, COULD_NOT_SELECT)]
                 /\ pc' = IF loc'.channel_rejected THEN "phase3" ELSE "phase2"

\* Phase 1: full config on the client's channel
Phase1 ==
    /\ pc = "phase1"
    /\ \E outcome \in TryOutcomes, log \in LogOutputs :
         /\ TryHostapdOnce(FALSE, outcome)
         /\ status' = [status EXCEPT !.hostapd_pid = TryPid(outcome)]
         /\ IF outcome = "running"
            THEN pc' = "assign_ip" /\ loc' = NoLoc
            ELSE /\ loc' = [loc EXCEPT !.log_output = log,
                                       !.channel_rejected = StrStr(log, COULD_NOT_SELECT)]
                 /\ pc' = IF loc'.channel_rejected THEN "phase3" ELSE "phase2"

\* Phase 2: minimal config on the client's channel
Phase2 ==
    /\ pc = "phase2"
    /\ \E outcome \in TryOutcomes, log \in LogOutputs :
         /\ TryHostapdOnce(TRUE, outcome)
         /\ status' = [status EXCEPT !.hostapd_pid = TryPid(outcome)]
         /\ IF outcome = "running"
            THEN pc' = "assign_ip" /\ loc' = NoLoc
            ELSE /\ loc' = [loc EXCEPT !.log_output = log,
                                       !.channel_rejected = StrStr(log, COULD_NOT_SELECT)]
                 /\ pc' = "phase3"

\* if (channel_rejected && is_5ghz)
Phase3Condition == loc.channel_rejected /\ loc.is_5ghz

\* Phase 3: override the channel to 6, or give up
Phase3 ==
    /\ pc = "phase3"
    /\ IF Phase3Condition
       THEN /\ loc' = [loc EXCEPT !.saved_channel = status.config.channel]
            /\ status' = [status EXCEPT !.config.channel = 6]
            /\ pc' = "phase3_full"
       ELSE /\ pc' = "hostapd_failed"
            /\ UNCHANGED <<status, loc>>
    /\ UNCHANGED <<ret, idx, envVars, histVars>>

\* a Phase 3 that forgets to put the saved channel back
RestoreChannelLost(saved) == status.config.channel

\* status->config.channel = saved_channel
RestoreChannel(saved) == saved

\* Try full config on 2.4GHz
Phase3Full ==
    /\ pc = "phase3_full"
    /\ \E outcome \in TryOutcomes, log \in LogOutputs :
         /\ TryHostapdOnce(FALSE, outcome)
         /\ IF outcome = "running"
            THEN /\ status' = [status EXCEPT !.hostapd_pid = TryPid(outcome),
                                 !.config.channel = RestoreChannel(loc.saved_channel)]
                 /\ pc' = "assign_ip" /\ loc' = NoLoc
            ELSE /\ status' = [status EXCEPT !.hostapd_pid = TryPid(outcome)]
                 /\ loc' = [loc EXCEPT !.log_output = log]
                 /\ pc' = "phase3_minimal"

\* Try minimal config on 2.4GHz
Phase3Minimal ==
    /\ pc = "phase3_minimal"
    /\ \E outcome \in TryOutcomes, log \in LogOutputs :
         /\ TryHostapdOnce(TRUE, outcome)
         /\ status' = [status EXCEPT !.hostapd_pid = TryPid(outcome),
                          !.config.channel = RestoreChannel(loc.saved_channel)]
         /\ IF outcome = "running"
            THEN pc' = "assign_ip" /\ loc' = NoLoc
            ELSE /\ loc' = [loc EXCEPT !.log_output = log]
                 /\ pc' = "hostapd_failed"

\* lines 687-700: the message of a failed negotiation
HostapdErrorMsg ==
    IF loc.channel_rejected /\ loc.is_5ghz
    THEN MsgNo5GHz(loc.client_channel)
    ELSE MsgHostapdFailed(CollapseNewlines(loc.log_output))

\* All attempts failed; hotspot_start then sets Error and cleans up
HostapdFailed ==
    /\ pc = "hostapd_failed"
    /\ status' = [status EXCEPT !.error_msg = HostapdErrorMsg, !.state = "Error"]
    /\ FailWithCleanup
    /\ neg' = NoNeg
    /\ UNCHANGED <<envVars, op, signals, snap>>

---------------------------------------------------------------------------
(* 6. assign_ap_ip, 7. start_dnsmasq, 8. setup_nat *)

AssignApIp ==
    /\ pc = "assign_ip"
    /\ addrs' = IF status.ap_iface \in ifaces THEN addrs \cup {status.ap_iface}
                                             ELSE addrs
    /\ Goto("dnsmasq")
    /\ neg' = NoNeg
    /\ UNCHANGED <<status, ifaces, alive, rules, ip_forward, files, leases,
                   nm_conf, air, host, disk, call, tui, hconf, op, signals, snap>>

\* what the launch of dnsmasq may come to: running with its pid file read,
\* launched but no pid read back, or the launch command fails
DnsmasqOutcomes == {"running", "no_pid", "launch_failed"}

\* variant of StartDnsmasq: a start_dnsmasq that returns true as soon as the
\* launch command succeeded, whatever the pid file holds
StartDnsmasqUnchecked ==
    /\ pc = "dnsmasq"
    /\ \E outcome \in DnsmasqOutcomes :
         IF outcome = "launch_failed"
         THEN /\ status' = [status EXCEPT !.error_msg = MsgDnsmasqStart,
                                          !.state = "Error"]
              /\ FailWithCleanup
              /\ UNCHANGED <<alive, files>>
         ELSE /\ alive' = alive \cup {"dnsmasq"}
              /\ files' = files \cup {DNSMASQ_LOG_FILE} \cup
                          (IF outcome = "running" THEN {DNSMASQ_PID_FILE} ELSE {})
              /\ status' = [status EXCEPT !.dnsmasq_pid =
                               IF outcome = "running" THEN PidOf("dnsmasq") ELSE 0]
              /\ Goto("nat")
    /\ UNCHANGED <<ifaces, addrs, rules, ip_forward, leases, nm_conf, air, host, disk, call, tui,
                   hconf, histVars>>

StartDnsmasq ==
    /\ pc = "dnsmasq"
    /\ \E outcome \in DnsmasqOutcomes :
         IF outcome = "launch_failed"
         THEN /\ status' = [status EXCEPT !.error_msg = MsgDnsmasqStart,
                                          !.state = "Error"]
              /\ FailWithCleanup
              /\ UNCHANGED <<alive, files>>
         ELSE /\ alive' = alive \cup {"dnsmasq"}
              /\ files' = files \cup {DNSMASQ_LOG_FILE} \cup
                          (IF outcome = "running" THEN {DNSMASQ_PID_FILE} ELSE {})
              /\ IF outcome = "running"
                 THEN /\ status' = [status EXCEPT !.dnsmasq_pid = PidOf("dnsmasq")]
                      /\ Goto("nat")
                 ELSE /\ status' = [status EXCEPT !.dnsmasq_pid = 0,
                                                  !.state = "Error"]
                      /\ FailWithCleanup
    /\ UNCHANGED <<ifaces, addrs, rules, ip_forward, leases, nm_conf, air, host, disk, call, tui,
                   hconf, histVars>>

\* setup_nat: the three rules it appends
setup_nat(bag, wifi, ap) ==
    IptablesAppend(
        IptablesAppend(
            IptablesAppend(bag, Masquerade(wifi), wifi),
            ForwardEstablished(wifi, ap), wifi),
        ForwardAccept(ap, wifi), wifi)

\* status->ip_forward_was_enabled = (atoi(output) == 1)
SavedForward == ip_forward = 1

\* variant of SetupNat: a start() that sets Running without the time stamp
SetupNatUntimed ==
    /\ pc = "nat"
    /\ rules' = setup_nat(rules, status.wifi.name, status.ap_iface)
    /\ ip_forward' = 1
    /\ status' = [status EXCEPT !.ip_forward_was_enabled = SavedForward,
                                !.state = "Running",
                                !.client_count = 0]
    /\ Return(TRUE)
    /\ snap' = CASE snap.cycle = "starting" -> [snap EXCEPT !.cycle = "running"]
                 [] snap.cycle = "restarting" -> [snap EXCEPT !.cycle = "restarted"]
                 [] OTHER -> EndCycle
    /\ UNCHANGED <<ifaces, addrs, alive, files, leases, nm_conf, air, host, disk, call, tui, hconf,
                   signals, neg>>

\* setup_nat always returns true; lines 834-838 follow
SetupNat ==
    /\ pc = "nat"
    /\ rules' = setup_nat(rules, status.wifi.name, status.ap_iface)
    /\ ip_forward' = 1
    /\ status' = [status EXCEPT !.ip_forward_was_enabled = SavedForward,
                                !.state = "Running",
                                !.start_time = 1,
                                !.client_count = 0]
    /\ Return(TRUE)
    /\ snap' = CASE snap.cycle = "starting" -> [snap EXCEPT !.cycle = "running"]
                 [] snap.cycle = "restarting" -> [snap EXCEPT !.cycle = "restarted"]
                 [] OTHER -> EndCycle
    /\ UNCHANGED <<ifaces, addrs, alive, files, leases, nm_conf, air, host, disk, call, tui, hconf,
                   signals, neg>>

---------------------------------------------------------------------------
(* hotspot_stop, hotspot_cleanup *)

\* lines 845-848: state = Stopping, then hotspot_cleanup
StopEntry(caller) ==
    /\ status' = [status EXCEPT !.state = "Stopping"]
    /\ pc' = "cl_hostapd"
    /\ ret' = caller
    /\ op' = [name |-> "stop", from |-> status.state, err0 |-> status.error_msg,
              done |-> FALSE, ok |-> FALSE, at |-> "none"]
    /\ signals' = {}
    /\ snap' = CASE snap.cycle = "running" -> [snap EXCEPT !.cycle = "stopping"]
                 [] snap.cycle = "restarted" -> [snap EXCEPT !.cycle = "restopping"]
                 [] OTHER -> EndCycle
    /\ UNCHANGED <<idx, loc, envVars, neg>>

\* hotspot_stop: the function accepts every state; the TUI calls it in
\* state Running
hotspot_stop ==
    /\ pc = "idle"
    /\ StopEntry("stop")

\* tui_run returns: the user quits, or SIGINT/SIGTERM cleared tui->running
TuiQuit ==
    /\ pc = "idle"
    /\ pc' = "main_exit"
    /\ UNCHANGED <<status, ret, idx, loc, envVars>>
    /\ Forget

\* main.c lines 144-148: if (state == HS_STATE_RUNNING) hotspot_stop(...)
MainStop ==
    /\ pc = "main_exit"
    /\ status.state = "Running"
    /\ StopEntry("main_stop")

\* main.c line 151: the final hotspot_cleanup, made in every case; when it
\* follows main's own hotspot_stop, the history keeps the rules and the flag
\* which that first cleanup left
MainCleanup ==
    /\ pc = "main_exit"
    /\ status.state # "Running"
    /\ pc' = "cl_hostapd"
    /\ ret' = "main"
    /\ op' = [name |-> "cleanup", from |-> status.state, err0 |-> status.error_msg,
              done |-> FALSE, ok |-> FALSE, at |-> "none"]
    /\ signals' = {}
    /\ snap' = IF op.name = "stop"
               THEN [cycle |-> "again", ip_forward |-> ip_forward,
                     rules |-> rules, starts |-> snap.starts]
               ELSE EndCycle
    /\ UNCHANGED <<status, idx, loc, envVars, neg>>

\* kill_process(status->hostapd_pid, "hostapd"); status->hostapd_pid = 0;
CleanupHostapd ==
    /\ pc = "cl_hostapd"
    /\ \E exits \in BOOLEAN :
         LET k == kill_process(status.hostapd_pid, "hostapd", exits)
         IN  alive' = k.alive /\ signals' = k.signals
    /\ status' = [status EXCEPT !.hostapd_pid = 0]
    /\ Goto("cl_dnsmasq")
    /\ UNCHANGED <<ifaces, addrs, rules, ip_forward, files, leases, nm_conf,
                   air, host, disk, call, tui, hconf, op, snap, neg>>

\* variant of PkillByConf: a cleanup without the pkill by config path
PkillByConfNone(running) == running

\* pkill -f DNSMASQ_CONF_PATH: the dnsmasq started with -C <that path>
PkillByConf(running) == running \ {"dnsmasq"}

\* kill_process(status->dnsmasq_pid, ""); pkill -f ...; status->dnsmasq_pid = 0;
CleanupDnsmasq ==
    /\ pc = "cl_dnsmasq"
    /\ \E exits \in BOOLEAN :
         LET k == kill_process(status.dnsmasq_pid, "", exits)
         IN  /\ alive' = PkillByConf(k.alive)
             /\ signals' = k.signals
                           \cup {<<d, "TERM">> : d \in k.alive \ alive'}
    /\ status' = [status EXCEPT !.dnsmasq_pid = 0]
    /\ Goto("cl_nat")
    /\ UNCHANGED <<ifaces, addrs, rules, ip_forward, files, leases, nm_conf,
                   air, host, disk, call, tui, hconf, op, snap, neg>>

\* a remove_nat that leaves the FORWARD rule of the AP side in place
remove_nat_two(bag, wifi, ap) ==
    IptablesDelete(
        IptablesDelete(bag, Masquerade(wifi), wifi),
        ForwardEstablished(wifi, ap), wifi)

\* remove_nat: the three deletions
remove_nat(bag, wifi, ap) ==
    IptablesDelete(
        IptablesDelete(
            IptablesDelete(bag, Masquerade(wifi), wifi),
            ForwardEstablished(wifi, ap), wifi),
        ForwardAccept(ap, wifi), wifi)

\* if (!status->ip_forward_was_enabled) sysctl -w net.ipv4.ip_forward=0
RestoreForward == IF ~status.ip_forward_was_enabled THEN 0 ELSE ip_forward

CleanupNat ==
    /\ pc = "cl_nat"
    /\ rules' = remove_nat(rules, status.wifi.name, status.ap_iface)
    /\ ip_forward' = RestoreForward
    /\ Goto("cl_iface")
    /\ UNCHANGED <<status, ifaces, addrs, alive, files, leases, nm_conf, air, host, disk, call, tui,
                   hconf, histVars>>

\* iw dev <ap_iface> del
CleanupIface ==
    /\ pc = "cl_iface"
    /\ ifaces' = ifaces \ {status.ap_iface}
    /\ addrs' = addrs \cap ifaces'
    /\ Goto("cl_nm")
    /\ UNCHANGED <<status, alive, rules, ip_forward, files, leases, nm_conf,
                   air, host, disk, call, tui, hconf, histVars>>

\* nm_cleanup_unmanaged: unlink(NM_UNMANAGED_CONF)
CleanupNm ==
    /\ pc = "cl_nm"
    /\ nm_conf' = NoFile
    /\ Goto("cl_files")
    /\ UNCHANGED <<status, ifaces, addrs, alive, rules, ip_forward, files,
                   leases, air, host, disk, call, tui, hconf, histVars>>

\* a cleanup that always ends in Stopped
StateAfterCleanupStopped(caller) == "Stopped"

\* status->state once hotspot_cleanup has returned to its caller:
\* hotspot_stop sets Stopped (line 847), the other callers leave it
StateAfterCleanup(caller) ==
    IF caller \in {"stop", "main_stop"} THEN "Stopped" ELSE status.state

\* variant of ResetCounters that leaves the start time of the run in place
ResetCountersKeepTime(st) == [st EXCEPT !.client_count = 0]

\* lines 886-887
ResetCounters(st) == [st EXCEPT !.client_count = 0, !.start_time = 0]

\* the six unlink calls, lines 886-887, and the caller's last statements
CleanupFiles ==
    /\ pc = "cl_files"
    /\ files' = files \ TempFiles
    /\ leases' = 0
    /\ hconf' = NoConf
    /\ status' = [ResetCounters(status) EXCEPT !.state = StateAfterCleanup(ret)]
    /\ Return(ret # "start")
    /\ snap' = CASE ret = "start" -> EndStart
                 [] snap.cycle = "stopping" -> [snap EXCEPT !.cycle = "stopped"]
                 [] snap.cycle = "restopping" -> [snap EXCEPT !.cycle = "restopped"]
                 [] snap.cycle = "again" -> snap
                 [] OTHER -> EndCycle
    /\ UNCHANGED <<ifaces, addrs, alive, rules, ip_forward, nm_conf, air, host, disk, call, tui,
                   signals, neg>>

---------------------------------------------------------------------------
(* hotspot_refresh_status, called by the TUI every two seconds *)

Min(a, b) == IF a < b THEN a ELSE b

\* net_get_connected_clients(status->clients, MAX_CLIENTS)
net_get_connected_clients ==
    IF DNSMASQ_LEASE_FILE \in files THEN Min(leases, MAX_CLIENTS) ELSE 0

\* variant of Dead: a probe that finds every process id alive
DeadNever(pid) == pid < 0

\* kill(pid, 0) != 0
Dead(pid) == DaemonsWithPid(pid) \cap alive = {}

\* variant of hotspot_refresh_status that forgets the process id of the
\* daemon it found dead
hotspot_refresh_status_reaping ==
    /\ pc = "idle"
    /\ IF status.state # "Running"
       THEN UNCHANGED status
       ELSE IF status.hostapd_pid > 0 /\ Dead(status.hostapd_pid)
       THEN status' = [status EXCEPT !.error_msg = MsgHostapdDied, !.state = "Error",
                                     !.hostapd_pid = 0]
       ELSE IF status.dnsmasq_pid > 0 /\ Dead(status.dnsmasq_pid)
       THEN status' = [status EXCEPT !.error_msg = MsgDnsmasqDied, !.state = "Error",
                                     !.dnsmasq_pid = 0]
       ELSE status' = [status EXCEPT !.wifi.channel = air,
                                     !.client_count = net_get_connected_clients]
    /\ UNCHANGED <<ctlVars, envVars>>
    /\ Forget

hotspot_refresh_status ==
    /\ pc = "idle"
    /\ IF status.state # "Running"
       THEN UNCHANGED status
       ELSE IF status.hostapd_pid > 0 /\ Dead(status.hostapd_pid)
       THEN status' = [status EXCEPT !.error_msg = MsgHostapdDied, !.state = "Error"]
       ELSE IF status.dnsmasq_pid > 0 /\ Dead(status.dnsmasq_pid)
       THEN status' = [status EXCEPT !.error_msg = MsgDnsmasqDied, !.state = "Error"]
       ELSE status' = [status EXCEPT !.wifi.channel = air,
                                     !.client_count = net_get_connected_clients]
    /\ UNCHANGED <<ctlVars, envVars>>
    /\ Forget

---------------------------------------------------------------------------
(* The config editor of the TUI: save_edit for the channel field.          *)
(* start_edit refuses to open a field while the hotspot is running.        *)

ValidChannel(ch) == ch >= 0 /\ ch <= 196

SaveEditChannel ==
    /\ pc = "idle"
    /\ status.state # "Running"
    /\ \E ch \in EditChannels :
         /\ ValidChannel(ch)
         /\ status' = [status EXCEPT !.config.channel = ch]
    /\ UNCHANGED <<ctlVars, envVars>>
    /\ Forget

---------------------------------------------------------------------------
(* The environment *)

\* a supervised daemon ends on its own
DaemonDies ==
    /\ pc = "idle"
    /\ \E d \in alive : alive' = alive \ {d}
    /\ UNCHANGED <<status, ctlVars, ifaces, addrs, rules, ip_forward, files,
                   leases, nm_conf, air, host, disk, call, tui, hconf>>
    /\ Forget

\* dnsmasq hands out a lease
ClientLease ==
    /\ pc = "idle"
    /\ "dnsmasq" \in alive
    /\ leases < MaxLeases
    /\ leases' = leases + 1
    /\ files' = files \cup {DNSMASQ_LEASE_FILE}
    /\ UNCHANGED <<status, ctlVars, ifaces, addrs, alive, rules, ip_forward,
                   nm_conf, air, host, disk, call, tui, hconf>>
    /\ Forget

\* the WiFi adapter goes away, with every interface of its radio
Unplug ==
    /\ pc = "idle"
    /\ ifaces # {}
    /\ ifaces' = {}
    /\ addrs' = {}
    /\ UNCHANGED <<status, ctlVars, alive, rules, ip_forward, files, leases,
                   nm_conf, air, host, disk, call, tui, hconf>>
    /\ Forget

\* the client link moves to another channel, or is lost
Roam ==
    /\ pc = "idle"
    /\ \E ch \in Channels \ {air} : air' = ch
    /\ UNCHANGED <<status, ctlVars, ifaces, addrs, alive, rules, ip_forward,
                   files, leases, nm_conf, host, disk, call, tui, hconf>>
    /\ Forget

---------------------------------------------------------------------------
(* net_get_connected_clients on the content of the lease file *)

\* the variables of the lifecycle, which the helper calls leave alone
lifeVars == <<status, pc, ret, idx, loc, ifaces, addrs, alive, rules, ip_forward,
              files, leases, nm_conf, air, host, hconf, op, signals, snap, neg, tui>>

\* lines of a lease file
MaxLeaseLines == 2

MAX_SSID_LEN == 64
MAX_IP_LEN == 46
MAX_MAC_LEN == 18

\* the pieces of the lines below
SP == <<" ">>
TS_0 == <<"0">>
MAC_PHONE == <<"a", "a", ":", "b", "b", ":", "c", "c", ":", "d", "d", ":", "e", "e", ":", "f", "f">>
MAC_LAPTOP == <<"1", "1", ":", "2", "2", ":", "3", "3", ":", "4", "4", ":", "5", "5", ":", "6", "6">>
IP_PHONE == <<"1", "9", "2", ".", "1", "6", "8", ".", "1", "2", ".", "1", "0">>
IP_LAPTOP == <<"1", "9", "2", ".", "1", "6", "8", ".", "1", "2", ".", "1", "1">>
HOST_PHONE == <<"p", "h", "o", "n", "e">>
HOST_NONE == <<"*">>

\* lines found in a lease file
LeaseLines == {
    \* 0 aa:bb:cc:dd:ee:ff 192.168.12.10 phone
    TS_0 \o SP \o MAC_PHONE \o SP \o IP_PHONE \o SP \o HOST_PHONE,
    \* 0 11:22:33:44:55:66 192.168.12.11 *      (the client sent no hostname)
    TS_0 \o SP \o MAC_LAPTOP \o SP \o IP_LAPTOP \o SP \o HOST_NONE,
    \* 0 aa:bb:cc:dd:ee:ff 192.168.12.10        (cut after the address)
    TS_0 \o SP \o MAC_PHONE \o SP \o IP_PHONE,
    \* phone                                    (one field)
    HOST_PHONE,
    \* 0 11:22:33:44:55:66 192.168.12.11 *phone (hostname starts with '*')
    TS_0 \o SP \o MAC_LAPTOP \o SP \o IP_LAPTOP \o SP \o HOST_NONE \o HOST_PHONE,
    \* the empty line
    << >>,
    \* 0 aa:bb:cc:dd:ee:ff:0 192.168.12.10 phone (hardware address too long)
    TS_0 \o SP \o MAC_PHONE \o <<":", "0">> \o SP \o IP_PHONE \o SP \o HOST_PHONE }

\* values of max_clients: one entry, or the caller's MAX_CLIENTS
ClientCaps == {1, MAX_CLIENTS}

\* what the uninitialised array `hostname` may hold
StackContents == {<<"*">>, <<"x">>}

isspace(c) == c \in {" ", "\t", "\n"}

RECURSIVE SkipSpace(_)
SkipSpace(s) == IF s # << >> /\ isspace(Head(s)) THEN SkipSpace(Tail(s)) ELSE s

\* the characters a %<w>s conversion stores: up to w, up to white space
RECURSIVE TakeWord(_, _)
TakeWord(s, w) ==
    IF s = << >> \/ w = 0 \/ isspace(Head(s)) THEN << >>
    ELSE <<Head(s)>> \o TakeWord(Tail(s), w - 1)

\* one %<w>s conversion: it fails at the end of the input
ScanS(s, w) ==
    LET t == SkipSpace(s)
        word == TakeWord(t, w)
    IN  [ok |-> word # << >>, word |-> word,
         rest |-> SubSeq(t, Len(word) + 1, Len(t))]

\* sscanf(line, "%31s %17s %45s %63s", ts, mac, ip, hostname): the number of
\* conversions made and the arrays after it; an array whose conversion was
\* not made keeps what it held
sscanf_lease(line, held) ==
    LET ts == ScanS(line, 31)
        mac == ScanS(ts.rest, 17)
        ip == ScanS(mac.rest, 45)
        hostname == ScanS(ip.rest, 63)
        n == IF ~ts.ok THEN 0 ELSE IF ~mac.ok THEN 1 ELSE IF ~ip.ok THEN 2
             ELSE IF ~hostname.ok THEN 3 ELSE 4
    IN  [n |-> n,
         mac |-> IF n >= 2 THEN mac.word ELSE held,
         ip |-> IF n >= 3 THEN ip.word ELSE held,
         hostname |-> IF n >= 4 THEN hostname.word ELSE held]

\* strncpy(dst, src, n) into a zeroed array
strncpy(src, n) == SubSeq(src, 1, Min(Len(src), n))

UNKNOWN_HOST == <<"(", "u", "n", "k", "n", "o", "w", "n", ")">>

\* the body of the while loop for one line that sscanf accepted
ClientOf(r) ==
    [mac |-> strncpy(r.mac, MAX_MAC_LEN - 1),
     ip |-> strncpy(r.ip, MAX_IP_LEN - 1),
     hostname |-> IF r.hostname[1] = "*"
                  THEN strncpy(UNKNOWN_HOST, MAX_SSID_LEN - 1)
                  ELSE strncpy(r.hostname, MAX_SSID_LEN - 1)]

\* while (fgets(line, sizeof(line), fp) && count < max_clients)
RECURSIVE LeaseLoop(_, _, _, _)
LeaseLoop(lines, max_clients, held, clients) ==
    IF lines = << >> \/ Len(clients) >= max_clients THEN clients
    ELSE LET r == sscanf_lease(Head(lines), held)
         IN  LeaseLoop(Tail(lines), max_clients, held,
                       IF r.n >= 3 THEN Append(clients, ClientOf(r)) ELSE clients)

\* net_get_connected_clients(clients, max_clients): the entries it stores
\* (it returns their number); `held` is what the array hostname holds when
\* the loop body is entered
ConnectedClients(file, max_clients, held) ==
    IF ~file.exists THEN << >> ELSE LeaseLoop(file.lines, max_clients, held, << >>)

\* dnsmasq (or anything else) appends a line to the lease file
LeaseWritten ==
    /\ pc = "idle"
    /\ \E line \in LeaseLines :
         LET old == IF disk.lease.exists THEN disk.lease.lines ELSE << >>
         IN  /\ Len(old) < MaxLeaseLines
             /\ disk' = [disk EXCEPT !.lease = [exists |-> TRUE,
                                                 lines |-> Append(old, line)]]
    /\ call' = NoCall
    /\ UNCHANGED lifeVars

\* a call of net_get_connected_clients
EnumerateClients ==
    /\ pc = "idle"
    /\ \E max_clients \in ClientCaps, held \in StackContents :
         call' = [name |-> "net_get_connected_clients",
                  max_clients |-> max_clients,
                  clients |-> ConnectedClients(disk.lease, max_clients, held)]
    /\ UNCHANGED <<disk, lifeVars>>

---------------------------------------------------------------------------
(* hotspot_save_config and hotspot_load_config on the persisted file *)

SSID_DEFAULT == <<"L", "i", "n", "u", "x", "H", "o", "t", "s", "p", "o", "t">>
PASSWORD_DEFAULT == <<"p", "a", "s", "s", "w", "o", "r", "d", "1", "2", "3">>

KEY_SSID == <<"s", "s", "i", "d">>
KEY_PASSWORD == <<"p", "a", "s", "s", "w", "o", "r", "d">>
KEY_CHANNEL == <<"c", "h", "a", "n", "n", "e", "l">>
KEY_MAX_CLIENTS == <<"m", "a", "x", "_", "c", "l", "i", "e", "n", "t", "s">>
KEY_HIDDEN == <<"h", "i", "d", "d", "e", "n">>

hotspot_default_config ==
    [ssid |-> SSID_DEFAULT,
     password |-> PASSWORD_DEFAULT,
     channel |-> 0,
     max_clients |-> 10,
     hidden |-> FALSE]

\* the configs handed to hotspot_save_config: the default SSID, one that
\* holds '=' and one that starts with '#'; channel, client limit and hidden
\* flag differ from the defaults in at least one of them
SavedConfigs ==
    [ssid : {SSID_DEFAULT, <<"a", "=", "b">>, <<"#", "1">>},
     password : {PASSWORD_DEFAULT},
     channel : {149},
     max_clients : {255},
     hidden : BOOLEAN]

Digits == <<"0", "1", "2", "3", "4", "5", "6", "7", "8", "9">>

\* printf %d of a natural number
RECURSIVE FormatNat(_)
FormatNat(n) ==
    IF n < 10 THEN <<Digits[n + 1]>>
    ELSE FormatNat(n \div 10) \o <<Digits[(n % 10) + 1]>>

\* printf %d
FormatInt(n) == IF n < 0 THEN <<"-">> \o FormatNat(0 - n) ELSE FormatNat(n)

isdigit(c) == \E i \in 1..10 : Digits[i] = c

DigitValue(c) == (CHOOSE i \in 1..10 : Digits[i] = c) - 1

\* the digits atoi reads, most significant first, onto the value so far
RECURSIVE AtoiDigits(_, _)
AtoiDigits(s, acc) ==
    IF s = << >> \/ ~isdigit(Head(s)) THEN acc
    ELSE AtoiDigits(Tail(s), 10 * acc + DigitValue(Head(s)))

\* atoi: white space, an optional sign, digits; 0 when there is no digit
atoi(s) ==
    LET t == SkipSpace(s)
    IN  IF t # << >> /\ Head(t) = "-" THEN 0 - AtoiDigits(Tail(t), 0)
        ELSE IF t # << >> /\ Head(t) = "+" THEN AtoiDigits(Tail(t), 0)
        ELSE AtoiDigits(t, 0)

\* lines 68-72: the text of the five fprintf calls
SaveText(config) ==
    KEY_SSID \o <<"=">> \o config.ssid \o <<NL>>
    \o KEY_PASSWORD \o <<"=">> \o config.password \o <<NL>>
    \o KEY_CHANNEL \o <<"=">> \o FormatInt(config.channel) \o <<NL>>
    \o KEY_MAX_CLIENTS \o <<"=">> \o FormatInt(config.max_clients) \o <<NL>>
    \o KEY_HIDDEN \o <<"=">> \o FormatInt(IF config.hidden THEN 1 ELSE 0) \o <<NL>>

\* strchr(s, c): the index of the first c in s, 0 when there is none
strchr(s, c) ==
    IF \E i \in 1..Len(s) : s[i] = c
    THEN CHOOSE i \in 1..Len(s) : s[i] = c /\ \A j \in 1..(i - 1) : s[j] # c
    ELSE 0

\* fgets(line, size, fp): up to size - 1 characters, up to and with a newline
fgets(text, size) ==
    LET nl == strchr(text, NL)
        n == IF nl = 0 THEN Min(Len(text), size - 1) ELSE Min(nl, size - 1)
    IN  [line |-> SubSeq(text, 1, n), rest |-> SubSeq(text, n + 1, Len(text))]

\* lines 93-121: what one line does to the config and to `any`
LoadLine(raw, r) ==
    LET nl == strchr(raw, NL)
        line == IF nl = 0 THEN raw ELSE SubSeq(raw, 1, nl - 1)
        eq == strchr(line, "=")
        key == SubSeq(line, 1, eq - 1)
        val == SubSeq(line, eq + 1, Len(line))
    IN  IF line = << >> \/ line[1] = "#" \/ eq = 0 THEN r
        ELSE IF key = KEY_SSID
        THEN [any |-> TRUE, config |-> [r.config EXCEPT !.ssid = strncpy(val, MAX_SSID_LEN - 1)]]
        ELSE IF key = KEY_PASSWORD
        THEN [any |-> TRUE, config |-> [r.config EXCEPT !.password = strncpy(val, MAX_SSID_LEN - 1)]]
        ELSE IF key = KEY_CHANNEL
        THEN [any |-> TRUE, config |-> [r.config EXCEPT !.channel = atoi(val)]]
        ELSE IF key = KEY_MAX_CLIENTS
        THEN [any |-> TRUE, config |-> [r.config EXCEPT !.max_clients = atoi(val)]]
        ELSE IF key = KEY_HIDDEN
        THEN [any |-> TRUE, config |-> [r.config EXCEPT !.hidden = (atoi(val) # 0)]]
        ELSE r

\* while (fgets(line, sizeof(line), fp)), with char line[512]
RECURSIVE LoadLoop(_, _)
LoadLoop(text, r) ==
    IF text = << >> THEN r
    ELSE LET g == fgets(text, 512)
         IN  LoadLoop(g.rest, LoadLine(g.line, r))

\* hotspot_load_config(config): its return value and the config after it
hotspot_load_config(file, config) ==
    IF ~file.exists THEN [any |-> FALSE, config |-> config]
    ELSE LoadLoop(file.text, [any |-> FALSE, config |-> config])

\* a file of one line
OneLine(line) == [exists |-> TRUE, text |-> line \o <<NL>>]

\* what the persisted path may hold when the program is launched: nothing,
\* or one line that is not an assignment, a number that is none, a short
\* passphrase, an SSID alone, a key the program does not know, a comment
PriorFiles == {
    Missing,
    \* hello
    OneLine(<<"h", "e", "l", "l", "o">>),
    \* max_clients=ten
    OneLine(KEY_MAX_CLIENTS \o <<"=">> \o <<"t", "e", "n">>),
    \* password=abc
    OneLine(KEY_PASSWORD \o <<"=">> \o <<"a", "b", "c">>),
    \* ssid=Cafe
    OneLine(KEY_SSID \o <<"=">> \o <<"C", "a", "f", "e">>),
    \* color=red
    OneLine(<<"c", "o", "l", "o", "r", "=", "r", "e", "d">>),
    \* #ssid=Cafe
    OneLine(<<"#">> \o KEY_SSID \o <<"=">> \o <<"C", "a", "f", "e">>) }

\* the thread of control is not inside hotspot_save_config
NoSaveRunning == IF call.name = "hotspot_save_config" THEN call.pc = "returned" ELSE TRUE

\* a call of hotspot_load_config on a default-initialised config
LoadConfig ==
    /\ pc = "idle"
    /\ NoSaveRunning
    /\ LET r == hotspot_load_config(disk.config, hotspot_default_config)
       IN  call' = [name |-> "hotspot_load_config", any |-> r.any,
                    config |-> r.config,
                    saved |-> IF call.name = "hotspot_save_config" /\ call.ok
                              THEN <<call.config>> ELSE << >>]
    /\ UNCHANGED <<disk, lifeVars>>

\* hotspot_save_config is called: the TUI calls it after every edit
SaveBegin ==
    /\ pc = "idle"
    /\ NoSaveRunning
    /\ \E config \in SavedConfigs :
         call' = [name |-> "hotspot_save_config", pc |-> "mkstemp",
                  config |-> config, ok |-> FALSE, before |-> disk.config]
    /\ UNCHANGED <<disk, lifeVars>>

\* fd = mkstemp(tmp_path); if (fd < 0) return false;
SaveMkstemp ==
    /\ call.name = "hotspot_save_config" /\ call.pc = "mkstemp"
    /\ \E ok \in BOOLEAN :
         IF ok
         THEN /\ disk' = [disk EXCEPT !.tmp = [exists |-> TRUE, text |-> << >>]]
              /\ call' = [call EXCEPT !.pc = "fdopen"]
         ELSE /\ call' = [call EXCEPT !.pc = "returned"]
              /\ UNCHANGED disk
    /\ UNCHANGED lifeVars

\* fp = fdopen(fd, "w"); on failure close, unlink and return false
SaveFdopen ==
    /\ call.name = "hotspot_save_config" /\ call.pc = "fdopen"
    /\ \E ok \in BOOLEAN :
         IF ok
         THEN /\ call' = [call EXCEPT !.pc = "write"]
              /\ UNCHANGED disk
         ELSE /\ disk' = [disk EXCEPT !.tmp = Missing]
              /\ call' = [call EXCEPT !.pc = "returned"]
    /\ UNCHANGED lifeVars

\* the five fprintf calls, fflush, fsync, fclose: no result is looked at, so
\* that a device that takes only the first n characters goes unnoticed
SaveWrite ==
    /\ call.name = "hotspot_save_config" /\ call.pc = "write"
    /\ \E n \in 0..Len(SaveText(call.config)) :
         disk' = [disk EXCEPT !.tmp = [exists |-> TRUE,
                                       text |-> SubSeq(SaveText(call.config), 1, n)]]
    /\ call' = [call EXCEPT !.pc = "rename"]
    /\ UNCHANGED lifeVars

\* rename(tmp_path, HOTSPOT_CONFIG_PATH); on failure unlink and return false
SaveRename ==
    /\ call.name = "hotspot_save_config" /\ call.pc = "rename"
    /\ \E ok \in BOOLEAN :
         IF ok
         THEN /\ disk' = [disk EXCEPT !.config = disk.tmp, !.tmp = Missing]
              /\ call' = [call EXCEPT !.pc = "returned", !.ok = TRUE]
         ELSE /\ disk' = [disk EXCEPT !.tmp = Missing]
              /\ call' = [call EXCEPT !.pc = "returned"]
    /\ UNCHANGED lifeVars

---------------------------------------------------------------------------
(* net_check_ap_support on the report of `iw phy <phy> info`: a report is  *)
(* a sequence of lines, a line a sequence of words.                        *)

HDR_MODES == "Supported interface modes:"
HDR_COMBINATIONS == "valid interface combinations:"

\* a line of the mode list
ModeLine(mode) == <<"*", mode>>

\* the modes a radio may list
ModeLists == {<< >>, <<"managed">>, <<"AP">>, <<"managed", "AP">>,
              <<"managed", "monitor">>, <<"AP", "monitor">>,
              <<"managed", "AP", "monitor">>, <<"monitor">>}

\* one interface combination, on one line
ONLY_MANAGED == <<"*", "#{", "managed", "}", "<=", "1,", "total", "<=", "1">>
ONLY_AP == <<"*", "#{", "AP", "}", "<=", "1,", "total", "<=", "1">>
MANAGED_AND_AP == <<"*", "#{", "managed", "}", "<=", "1,", "#{", "AP", "}", "<=", "1,",
                    "total", "<=", "2">>

Combinations == {ONLY_MANAGED, ONLY_AP, MANAGED_AND_AP}

\* the combination lists a radio may report: none, one or two entries
CombinationLists ==
    {<< >>} \cup {<<a>> : a \in Combinations}
            \cup {<<a, b>> : a \in Combinations, b \in Combinations}

\* the band description that follows the mode list
BandLines == [i \in 1..12 |-> <<"Band", "1:">>]

\* the feature lines that may follow the combinations
FeatureLists == {<< >>, <<<<"Device", "supports", "AP", "scan.">>>>}

\* the report of a radio
Report(modes, combinations, features) ==
    <<<<HDR_MODES>>>> \o [i \in 1..Len(modes) |-> ModeLine(modes[i])]
    \o BandLines
    \o (IF combinations = << >>
        THEN <<<<"interface", "combinations", "are", "not", "supported">>>>
        ELSE <<<<HDR_COMBINATIONS>>>> \o combinations)
    \o features

Reports ==
    {Report(m, c, f) : m \in ModeLists, c \in CombinationLists, f \in FeatureLists}

\* a line has the word
HasWord(line, word) == \E i \in 1..Len(line) : line[i] = word

\* grep -A after 'pattern': the lines that hold the pattern and the `after`
\* lines that follow each of them
GrepA(report, pattern, after) ==
    LET shown == {i \in 1..Len(report) :
                    \E h \in 1..Len(report) :
                       HasWord(report[h], pattern) /\ h <= i /\ i <= h + after}
    IN  [lines |-> shown, text |-> report]

\* strstr(output, word) != NULL
strstr(output, word) == \E i \in output.lines : HasWord(output.text[i], word)

\* strlen(output) > 0 && strstr(output, "managed") && strstr(output, "AP")
BothListed(output) ==
    output.lines # {} /\ strstr(output, "managed") /\ strstr(output, "AP")

\* net_check_ap_support(phy): Method 1, then Method 2
net_check_ap_support(report) ==
    \/ BothListed(GrepA(report, HDR_COMBINATIONS, 8))
    \/ BothListed(GrepA(report, HDR_MODES, 10))

\* net_detect_wifi_interface line 214 on a radio with the report
CheckApSupport ==
    /\ pc = "idle"
    /\ \E report \in Reports :
         call' = [name |-> "net_check_ap_support", report |-> report,
                  supports_ap |-> net_check_ap_support(report)]
    /\ UNCHANGED <<disk, lifeVars>>

---------------------------------------------------------------------------
(* The signal handlers and the places of tui_run and main that read the    *)
(* flags.  A signal is delivered between any two steps of the thread of    *)
(* control, the middle of hotspot_start and hotspot_cleanup included.      *)

\* every variable but the flags
progVars == <<status, pc, ret, idx, loc, ifaces, addrs, alive, rules, ip_forward,
              files, leases, nm_conf, air, host, hconf, op, signals, snap, neg,
              disk, call>>

\* variant of signal_handler: a handler that stops the hotspot itself
signal_handler_stopping ==
    /\ pc # "exited"
    /\ tui' = [tui EXCEPT !.g_shutdown = 1, !.running = FALSE]
    /\ status' = [status EXCEPT !.state = "Stopping"]
    /\ pc' = "cl_hostapd"
    /\ ret' = "stop"
    /\ op' = [name |-> "stop", from |-> status.state, err0 |-> status.error_msg,
              done |-> FALSE, ok |-> FALSE, at |-> "none"]
    /\ UNCHANGED <<idx, loc, ifaces, addrs, alive, rules, ip_forward, files, leases,
                   nm_conf, air, host, hconf, signals, snap, neg, disk, call>>

\* main.c signal_handler (SIGINT, SIGTERM): g_shutdown = 1; g_tui.running = false;
signal_handler ==
    /\ pc # "exited"
    /\ tui' = [tui EXCEPT !.g_shutdown = 1, !.running = FALSE]
    /\ UNCHANGED progVars

\* tui.c handle_resize (SIGWINCH): g_resize = 1;
handle_resize ==
    /\ pc # "exited"
    /\ tui' = [tui EXCEPT !.g_resize = 1]
    /\ UNCHANGED progVars

\* tui_run lines 833-838: if (g_resize) { g_resize = 0; ... }
TuiResize ==
    /\ pc = "idle"
    /\ tui.g_resize = 1
    /\ tui' = [tui EXCEPT !.g_resize = 0]
    /\ UNCHANGED progVars

\* tui_run, case 'q': tui->running = false;
KeyQ ==
    /\ pc = "idle"
    /\ tui.running
    /\ tui' = [tui EXCEPT !.running = FALSE]
    /\ UNCHANGED progVars

\* while (tui->running) finds the flag cleared: tui_run returns to main
TuiLoopEnd ==
    /\ pc = "idle"
    /\ ~tui.running
    /\ pc' = "main_exit"
    /\ UNCHANGED <<status, ret, idx, loc, envVars>>
    /\ Forget

---------------------------------------------------------------------------

(* The lifecycle specification: the orchestrator with its default config   *)
(* on a host whose client link stays on one channel.                       *)

Next ==
    \/ hotspot_start \/ StartDetect \/ StartPhy
    \/ CreateKill \/ CreateRemove \/ CreateNm \/ CreateAdd \/ CreateUnmanage
    \/ GenHostapdConf \/ GenDnsmasqConf
    \/ StartHostapdEnter \/ Phase1 \/ Phase2 \/ Phase3 \/ Phase3Full
    \/ Phase3Minimal \/ HostapdFailed
    \/ AssignApIp \/ StartDnsmasq \/ SetupNat
    \/ hotspot_stop \/ TuiQuit \/ MainStop \/ MainCleanup
    \/ CleanupHostapd \/ CleanupDnsmasq \/ CleanupNat \/ CleanupIface
    \/ CleanupNm \/ CleanupFiles
    \/ hotspot_refresh_status
    \/ DaemonDies \/ ClientLease \/ Unplug

Spec == Init /\ [][Next]_vars

---------------------------------------------------------------------------
(* The channel specification: the config editor and a roaming client link  *)
(* on a host with forwarding off, no rules and a driver that refuses no    *)
(* name; the daemons do not end on their own and the adapter stays.        *)

InitChannel ==
    /\ Init
    /\ host = [busy |-> {}, ap_support |-> TRUE, ip_forward |-> 0,
               rules |-> EmptyBag, netfilter |-> TRUE, nm_dir |-> TRUE]

NextChannel ==
    \/ hotspot_start \/ StartDetect \/ StartPhy
    \/ CreateKill \/ CreateRemove \/ CreateNm \/ CreateAdd \/ CreateUnmanage
    \/ GenHostapdConf \/ GenDnsmasqConf
    \/ StartHostapdEnter \/ Phase1 \/ Phase2 \/ Phase3 \/ Phase3Full
    \/ Phase3Minimal \/ HostapdFailed
    \/ AssignApIp \/ StartDnsmasq \/ SetupNat
    \/ hotspot_stop
    \/ CleanupHostapd \/ CleanupDnsmasq \/ CleanupNat \/ CleanupIface
    \/ CleanupNm \/ CleanupFiles
    \/ hotspot_refresh_status \/ SaveEditChannel \/ Roam

SpecChannel == InitChannel /\ [][NextChannel]_vars

---------------------------------------------------------------------------
(* The NAT specification: the lifecycle on hosts where every iptables      *)
(* command fails (no iptables binary, or tables that cannot be written).   *)

HostsNat == [busy : {{}, {"ap0"}}, ap_support : {TRUE}, ip_forward : {0, 1},
             rules : {EmptyBag}, netfilter : {FALSE}, nm_dir : {TRUE}]

InitNat == InitWith(HostsNat) /\ disk = NoDisk

SpecNat == InitNat /\ [][Next]_vars

---------------------------------------------------------------------------
(* The refresh specification: the channel specification with daemons that  *)
(* may end on their own and clients that take leases, so that every branch *)
(* of hotspot_refresh_status has something to read.                        *)

NextRefresh == NextChannel \/ DaemonDies \/ ClientLease

SpecRefresh == InitChannel /\ [][NextRefresh]_vars

---------------------------------------------------------------------------
(* The lease specification: net_get_connected_clients called on every      *)
(* lease file of up to MaxLeaseLines lines, the hotspot stopped.           *)

NextLeases == LeaseWritten \/ EnumerateClients

SpecLeases == InitChannel /\ [][NextLeases]_vars

---------------------------------------------------------------------------
(* The config specification: hotspot_save_config and hotspot_load_config   *)
(* on every persisted file of PriorFiles and on the files the saves leave, *)
(* the hotspot stopped.                                                    *)

InitConfig ==
    /\ InitWith({[busy |-> {}, ap_support |-> TRUE, ip_forward |-> 0,
                  rules |-> EmptyBag, netfilter |-> TRUE, nm_dir |-> TRUE]})
    /\ air = 0
    /\ disk \in [lease : {Missing}, config : PriorFiles, tmp : {Missing}]

NextConfig ==
    \/ SaveBegin \/ SaveMkstemp \/ SaveFdopen \/ SaveWrite \/ SaveRename
    \/ LoadConfig

SpecConfig == InitConfig /\ [][NextConfig]_vars

---------------------------------------------------------------------------
(* The probe specification: net_check_ap_support on every report of        *)
(* Reports, the hotspot stopped.                                           *)

NextProbe == CheckApSupport

InitProbe == InitConfig /\ disk = NoDisk

SpecProbe == InitProbe /\ [][NextProbe]_vars

---------------------------------------------------------------------------
(* kill_process step by step: the SIGTERM, the polls of kill(pid, 0) one   *)
(* usleep apart, the SIGKILL once the polls ran out and the pkill -9 by    *)
(* name. `call` is the frame of the call: its arguments, the loop counter  *)
(* i, its position and the signals that reached a process, in order.       *)

\* for (int i = 0; i < 30; i++)
KillPolls == 30

\* pids a caller may have recorded: none, an invalid one, hostapd's, dnsmasq's
KillPids == {-1, 0, 1, 2}
\* the names the callers pass: "hostapd" and ""
KillNames == {"hostapd", ""}

killRest == <<status, pc, ret, idx, loc, ifaces, addrs, rules, ip_forward, files,
              leases, nm_conf, air, host, hconf, op, signals, snap, neg, tui, disk>>

InKill == call.name = "kill_process"
KillAt(at) == IF InKill THEN call.at = at ELSE FALSE
KillRunning == IF InKill THEN call.at # "returned" ELSE FALSE
KillReturned == KillAt("returned")

\* the live process kill(call.pid, ...) reaches: none when the pid is stale
KillTarget == DaemonsWithPid(call.pid) \cap alive

\* the record of the signals after `sig` reached the processes of `set`
Delivered(sent, set, sig) ==
    IF set = {} THEN sent ELSE Append(sent, <<CHOOSE d \in set : TRUE, sig>>)

\* a call of kill_process(pid, name), with any of the daemons running
KillEnter ==
    /\ pc = "idle"
    /\ ~KillRunning
    /\ \E pid \in KillPids, name \in KillNames, running \in SUBSET Daemons :
         /\ alive' = running
         /\ call' = [name |-> "kill_process", pid |-> pid, pname |-> name,
                     i |-> 0, at |-> "entry", sent |-> <<>>]
    /\ UNCHANGED killRest

\* if (pid <= 0) return; if (kill(pid, SIGTERM) == 0) { ... }
KillTerm ==
    /\ KillAt("entry")
    /\ IF call.pid <= 0
       THEN call' = [call EXCEPT !.at = "returned"]
       ELSE IF KillTarget # {}
       THEN call' = [call EXCEPT !.at = "poll",
                                 !.sent = Delivered(@, KillTarget, "TERM")]
       ELSE call' = [call EXCEPT !.at = "by_name"]
    /\ UNCHANGED <<alive, killRest>>

\* variant of KillPoll: a loop that polls until the process is gone, with no
\* count of the polls
KillPollUncounted ==
    /\ KillAt("poll")
    /\ call.i < KillPolls
    /\ IF KillTarget = {}
       THEN call' = [call EXCEPT !.at = "returned"]
       ELSE call' = call
    /\ UNCHANGED <<alive, killRest>>

\* one round of the loop: if (kill(pid, 0) != 0) return; usleep(100000);
KillPoll ==
    /\ KillAt("poll")
    /\ call.i < KillPolls
    /\ IF KillTarget = {}
       THEN call' = [call EXCEPT !.at = "returned"]
       ELSE call' = [call EXCEPT !.i = @ + 1]
    /\ UNCHANGED <<alive, killRest>>

\* after the loop: kill(pid, SIGKILL)
KillForce ==
    /\ KillAt("poll")
    /\ call.i = KillPolls
    /\ call' = [call EXCEPT !.at = "by_name",
                            !.sent = Delivered(@, KillTarget, "KILL")]
    /\ alive' = alive \ KillTarget
    /\ UNCHANGED killRest

\* if (name && name[0]) pkill -9 <name>
KillByName ==
    /\ KillAt("by_name")
    /\ LET byName == IF call.pname = "" THEN {}
                     ELSE {d \in alive : d = call.pname}
       IN  /\ call' = [call EXCEPT !.at = "returned",
                                   !.sent = Delivered(@, byName, "KILL")]
           /\ alive' = alive \ byName
    /\ UNCHANGED killRest

\* a process that got SIGTERM exits, at any moment of the polling
TermExit ==
    /\ KillAt("poll")
    /\ \E d \in alive :
         /\ \E k \in 1..Len(call.sent) : call.sent[k] = <<d, "TERM">>
         /\ alive' = alive \ {d}
    /\ UNCHANGED <<call, killRest>>

KillStep == KillTerm \/ KillPoll \/ KillForce \/ KillByName

NextKill == KillEnter \/ KillTerm \/ KillPoll \/ KillForce \/ KillByName \/ TermExit

\* kill_process is sequential code: it takes its next step as long as it has one
SpecKill == InitProbe /\ [][NextKill]_vars /\ WF_vars(KillStep)

---------------------------------------------------------------------------
(* The config screen of the TUI: the keys of tui_run that select a screen  *)
(* and a field, start_edit, save_edit and cancel_edit, around the          *)
(* lifecycle. `tui` carries current_screen, selected_field and editing as  *)
(* well; status.config carries its five fields.                            *)

\* the screens, in the order of F1..F4
Screens == <<"SCREEN_DASHBOARD", "SCREEN_CONFIG", "SCREEN_CLIENTS", "SCREEN_LOG">>
SCREEN_COUNT == Len(Screens)

\* the fields of the config screen, in the order draw_config lists them
CfgFields == <<"CFG_SSID", "CFG_PASSWORD", "CFG_CHANNEL", "CFG_BAND_INFO",
               "CFG_MAX_CLIENTS", "CFG_HIDDEN">>
CFG_FIELD_COUNT == Len(CfgFields)

Screen == Screens[tui.current_screen + 1]
SelectedField == CfgFields[tui.selected_field + 1]

\* what the user may have in the edit buffer when Enter is pressed
EditBuffers(field) ==
    CASE field = "CFG_SSID" -> {<< >>, <<"n", "e", "t">>}
      [] field = "CFG_PASSWORD" -> {<<"s", "h", "o", "r", "t">>,
                                    <<"l", "o", "n", "g", "p", "a", "s", "s">>}
      [] field = "CFG_CHANNEL" -> {<<"6">>, <<"2", "0", "0">>}
      [] field = "CFG_MAX_CLIENTS" -> {<<"0">>, <<"5">>}
      [] OTHER -> {<< >>}

\* tui_init with the fields of the config screen
tui_init_screen ==
    [running |-> TRUE, g_shutdown |-> 0, g_resize |-> 0,
     current_screen |-> 0, editing |-> FALSE, selected_field |-> 0]

\* hotspot_save_config(cfg) on a file system that takes the write: the file
\* with the new content
Persisted(cfg) ==
    {[disk EXCEPT !.config = [exists |-> TRUE, text |-> SaveText(cfg)]]}

editRest == <<ctlVars, ifaces, addrs, alive, rules, ip_forward, files, leases,
              nm_conf, air, host, call, hconf>>

\* F1..F4, Tab and Shift+Tab outside edit mode
KeyScreen ==
    /\ pc = "idle"
    /\ ~tui.editing
    /\ \E s \in 0..(SCREEN_COUNT - 1) :
         /\ s # tui.current_screen
         /\ tui' = [tui EXCEPT !.current_screen = s]
    /\ UNCHANGED <<status, disk, editRest>>
    /\ Forget

\* KEY_UP and KEY_DOWN on the config screen
KeyUpDown ==
    /\ pc = "idle"
    /\ ~tui.editing
    /\ Screen = "SCREEN_CONFIG"
    /\ \/ /\ tui.selected_field > 0
          /\ tui' = [tui EXCEPT !.selected_field = @ - 1]
       \/ /\ tui.selected_field < CFG_FIELD_COUNT - 1
          /\ tui' = [tui EXCEPT !.selected_field = @ + 1]
    /\ UNCHANGED <<status, disk, editRest>>
    /\ Forget

\* Enter on the dashboard in state Stopped or Error
EnterStart ==
    /\ ~tui.editing
    /\ Screen = "SCREEN_DASHBOARD"
    /\ hotspot_start

\* Enter on the dashboard in state Running
EnterStop ==
    /\ ~tui.editing
    /\ Screen = "SCREEN_DASHBOARD"
    /\ status.state = "Running"
    /\ hotspot_stop

\* variant of start_edit: an editor that opens whatever the state is
start_edit_always ==
    /\ pc = "idle"
    /\ ~tui.editing
    /\ Screen = "SCREEN_CONFIG"
    /\ IF SelectedField = "CFG_BAND_INFO"
       THEN UNCHANGED <<status, tui, disk>>
       ELSE IF SelectedField = "CFG_HIDDEN"
       THEN /\ status' = [status EXCEPT !.config.hidden = ~@]
            /\ disk' \in Persisted(status'.config)
            /\ UNCHANGED tui
       ELSE /\ tui' = [tui EXCEPT !.editing = TRUE]
            /\ UNCHANGED <<status, disk>>
    /\ UNCHANGED editRest
    /\ Forget

\* Enter on the config screen: start_edit
start_edit ==
    /\ pc = "idle"
    /\ ~tui.editing
    /\ Screen = "SCREEN_CONFIG"
    /\ IF status.state = "Running" \/ SelectedField = "CFG_BAND_INFO"
       THEN UNCHANGED <<status, tui, disk>>
       ELSE IF SelectedField = "CFG_HIDDEN"
       THEN /\ status' = [status EXCEPT !.config.hidden = ~@]
            /\ disk' \in Persisted(status'.config)
            /\ UNCHANGED tui
       ELSE /\ tui' = [tui EXCEPT !.editing = TRUE]
            /\ UNCHANGED <<status, disk>>
    /\ UNCHANGED editRest
    /\ Forget

\* the checks of save_edit on the edit buffer
save_edit_accepts(field, buf) ==
    CASE field = "CFG_SSID" -> Len(buf) > 0
      [] field = "CFG_PASSWORD" -> Len(buf) >= 8
      [] field = "CFG_CHANNEL" -> ValidChannel(atoi(buf))
      [] field = "CFG_MAX_CLIENTS" -> atoi(buf) > 0 /\ atoi(buf) <= 255
      [] OTHER -> FALSE

\* the config after save_edit with `buf` in the edit buffer
save_edit_config(cfg, field, buf) ==
    IF ~save_edit_accepts(field, buf) THEN cfg
    ELSE CASE field = "CFG_SSID" -> [cfg EXCEPT !.ssid = strncpy(buf, MAX_SSID_LEN - 1)]
           [] field = "CFG_PASSWORD" ->
                  [cfg EXCEPT !.password = strncpy(buf, MAX_SSID_LEN - 1)]
           [] field = "CFG_CHANNEL" -> [cfg EXCEPT !.channel = atoi(buf)]
           [] field = "CFG_MAX_CLIENTS" -> [cfg EXCEPT !.max_clients = atoi(buf)]

\* Enter in edit mode: save_edit. A value that was accepted is persisted.
save_edit ==
    /\ pc = "idle"
    /\ tui.editing
    /\ \E buf \in EditBuffers(SelectedField) :
         LET accepted == save_edit_accepts(SelectedField, buf)
             cfg == save_edit_config(status.config, SelectedField, buf)
         IN  /\ status' = [status EXCEPT !.config = cfg]
             /\ IF accepted THEN disk' \in Persisted(cfg) ELSE UNCHANGED disk
    /\ tui' = [tui EXCEPT !.editing = FALSE]
    /\ UNCHANGED editRest
    /\ Forget

\* ESC in edit mode: cancel_edit
cancel_edit ==
    /\ pc = "idle"
    /\ tui.editing
    /\ tui' = [tui EXCEPT !.editing = FALSE]
    /\ UNCHANGED <<status, disk, editRest>>
    /\ Forget

NextEdit ==
    \/ EnterStart \/ StartDetect \/ StartPhy
    \/ CreateKill \/ CreateRemove \/ CreateNm \/ CreateAdd \/ CreateUnmanage
    \/ GenHostapdConf \/ GenDnsmasqConf
    \/ StartHostapdEnter \/ Phase1 \/ Phase2 \/ Phase3 \/ Phase3Full
    \/ Phase3Minimal \/ HostapdFailed
    \/ AssignApIp \/ StartDnsmasq \/ SetupNat
    \/ EnterStop
    \/ CleanupHostapd \/ CleanupDnsmasq \/ CleanupNat \/ CleanupIface
    \/ CleanupNm \/ CleanupFiles
    \/ hotspot_refresh_status \/ DaemonDies
    \/ KeyScreen \/ KeyUpDown \/ start_edit \/ save_edit \/ cancel_edit

\* hotspot_init with the config of hotspot_default_config, tui_init, a host
\* with free names and a client link on channel 149
InitEdit ==
    /\ air = 149
    /\ status = [hotspot_init EXCEPT !.config = hotspot_default_config,
                                     !.wifi = [name |-> WifiName, channel |-> air]]
    /\ pc = "idle" /\ ret = "none" /\ idx = 0 /\ loc = NoLoc
    /\ ifaces = {WifiName} /\ addrs = {} /\ alive = {}
    /\ host = [busy |-> {}, ap_support |-> TRUE, ip_forward |-> 0,
               rules |-> EmptyBag, netfilter |-> TRUE, nm_dir |-> TRUE]
    /\ rules = host.rules /\ ip_forward = host.ip_forward
    /\ files = {} /\ leases = 0 /\ nm_conf = NoFile /\ hconf = NoConf
    /\ op = NoOp /\ signals = {} /\ snap = NoSnap /\ neg = NoNeg
    /\ call = NoCall /\ disk = NoDisk
    /\ tui = tui_init_screen

SpecEdit == InitEdit /\ [][NextEdit]_vars

---------------------------------------------------------------------------
(* The signal specification: the event loop with its start, stop and       *)
(* refresh calls, the three signals arriving at any moment, and the exit   *)
(* of main once the loop has seen tui->running cleared.                    *)

NextSignals ==
    \/ hotspot_start \/ StartDetect \/ StartPhy
    \/ CreateKill \/ CreateRemove \/ CreateNm \/ CreateAdd \/ CreateUnmanage
    \/ GenHostapdConf \/ GenDnsmasqConf
    \/ StartHostapdEnter \/ Phase1 \/ Phase2 \/ Phase3 \/ Phase3Full
    \/ Phase3Minimal \/ HostapdFailed
    \/ AssignApIp \/ StartDnsmasq \/ SetupNat
    \/ hotspot_stop \/ MainStop \/ MainCleanup
    \/ CleanupHostapd \/ CleanupDnsmasq \/ CleanupNat \/ CleanupIface
    \/ CleanupNm \/ CleanupFiles
    \/ hotspot_refresh_status
    \/ signal_handler \/ handle_resize \/ TuiResize \/ KeyQ \/ TuiLoopEnd

SpecSignals == InitChannel /\ [][NextSignals]_vars

---------------------------------------------------------------------------
(* The creation specification: the lifecycle on hosts with and without the *)
(* directory of the network-manager override, forwarding off and no rules. *)

HostsCreate == [busy : BusySets, ap_support : {TRUE}, ip_forward : {0},
                rules : {EmptyBag}, netfilter : {TRUE}, nm_dir : BOOLEAN]

InitCreate == InitWith(HostsCreate) /\ disk = NoDisk

SpecCreate == InitCreate /\ [][Next]_vars

---------------------------------------------------------------------------
(* Properties *)

\* a call of hotspot_start has returned failure
StartFailed == op.name = "start" /\ op.done /\ ~op.ok

\* a hotspot_stop called in state Stopped, running or just returned
StopWhenStopped == op.name = "stop" /\ op.from = "Stopped"

\* the stop() that follows a start() made in state Stopped has returned
CycleDone == op.name = "stop" /\ op.done /\ snap.cycle = "stopped"

\* C1: when the stop() that follows a successful start() from Stopped
\* returns (refreshes in between or not), no AP interface exists, every
\* rule is present as many times as right before the start(), so that none
\* of the rules the start() installed is left, the forwarding flag has the
\* value it had right before the start(), and no temporary file exists.
C1_FullCycleRestore ==
    CycleDone =>
        /\ ifaces \cap ApNames = {}
        /\ \A r \in BagToSet(rules) \cup BagToSet(snap.rules) :
               CopiesIn(r, rules) = CopiesIn(r, snap.rules)
        /\ ip_forward = snap.ip_forward
        /\ files \cap TempFiles = {}

\* a cycle that started with forwarding off and a MASQUERADE rule of
\* somebody else in the table
C1_Witness ==
    /\ CycleDone
    /\ snap.ip_forward = 0
    /\ snap.rules # EmptyBag
    /\ ip_forward = 0

\* C2: over every sequence of calls the orchestrator never turns the
\* forwarding flag off when the flag was on before the orchestrator itself
\* enabled it: a flag found on at launch stays on.
C2_ForwardingKept == host.ip_forward = 1 => ip_forward = 1

\* C3: a stop() called in state Stopped signals no process in any of its
\* steps, and when it returns the state is Stopped and error_msg is what it
\* was at the call.
C3_StopIdempotent ==
    StopWhenStopped =>
        /\ signals = {}
        /\ op.done => /\ status.state = "Stopped"
                      /\ status.error_msg = op.err0

\* a stop() in state Stopped that has returned, after a start() was made
C3_Witness == StopWhenStopped /\ op.done /\ snap.starts > 0

\* C4: whenever start() returns failure, no AP interface, no supervised
\* daemon and no rule beyond those found at launch is left.
C4_NothingDangling ==
    StartFailed =>
        /\ ifaces \cap ApNames = {}
        /\ alive = {}
        /\ \A r \in BagToSet(rules) : CopiesIn(r, rules) <= CopiesIn(r, host.rules)

\* C5: whenever start() returns failure, the state is Error and error_msg
\* is a non-empty message without a newline.
C5_FailureMessage ==
    StartFailed =>
        /\ status.state = "Error"
        /\ status.error_msg # EmptyStr
        /\ ~StrStr(status.error_msg, NL)

\* the channel start_hostapd was asked for: config.channel at its entry if
\* nonzero, else the client's current channel
RequestedChannel ==
    IF neg.entry # 0 THEN neg.entry ELSE status.wifi.channel

\* some launch of this negotiation was made on channel 6
TriedChannel6 == \E k \in 1..Len(neg.tries) : neg.tries[k].channel = 6

\* C6: when the resolved channel is in the 5 GHz range and the failed
\* attempts on it report "Could not select", the negotiation does not give
\* up before it has retried on channel 6; and when the retry on channel 6
\* succeeds, config.channel holds the value it had at entry.
C6_RetryOnChannel6 ==
    /\ (pc = "hostapd_failed" /\ loc.channel_rejected /\ RequestedChannel >= 32)
          => TriedChannel6
    /\ (pc = "assign_ip" /\ RequestedChannel >= 32 /\ TriedChannel6)
          => status.config.channel = neg.entry

\* C7: on every return path of start_hostapd, status.config.channel equals
\* its value at entry.
C7_ChannelRestored ==
    pc \in {"assign_ip", "hostapd_failed"} => status.config.channel = neg.entry

\* start_hostapd returns success from Phase 3, entered with channel 149
C7_Witness ==
    /\ pc = "assign_ip"
    /\ neg.entry = 149
    /\ TriedChannel6
    /\ status.config.channel = 149

\* program points of hotspot_start at which the hostapd configuration is
\* the one this start() generated last
AfterGenerate ==
    pc \in {"gen_dnsmasq", "start_hostapd", "phase1", "phase2", "phase3",
            "phase3_full", "phase3_minimal", "hostapd_failed", "assign_ip",
            "dnsmasq", "nat"}

AllowedTransitions ==
    { <<"Stopped", "Starting">>, <<"Error", "Starting">>,
      <<"Starting", "Running">>, <<"Starting", "Error">>,
      <<"Running", "Error">>,
      <<"Running", "Stopping">>, <<"Error", "Stopping">>,
      <<"Stopped", "Stopping">>,
      <<"Stopping", "Stopped">>, <<"Stopping", "Error">> }

\* C10: every change of status.state is one of the listed transitions, and
\* Running is entered only from Starting, by the last step of start().
C10_Transitions ==
    [][ status'.state # status.state =>
          /\ <<status.state, status'.state>> \in AllowedTransitions
          /\ status'.state = "Running" =>
                 (status.state = "Starting" /\ op.name = "start" /\ pc = "nat") ]_vars

\* a start() that failed after Running had been left through Error
C10_Witness ==
    /\ StartFailed
    /\ op.from = "Error"
    /\ status.state = "Error"
    /\ snap.starts = 2

\* C11: a stop() made in any state returns success and leaves state Stopped
\* with hostapd_pid, dnsmasq_pid, client_count and start_time all zero; hence
\* those four fields are zero in every state whose state field is Stopped.
C11_StopZeroes ==
    /\ (op.name = "stop" /\ op.done) => (op.ok /\ status.state = "Stopped")
    /\ status.state = "Stopped" =>
          /\ status.hostapd_pid = 0
          /\ status.dnsmasq_pid = 0
          /\ status.client_count = 0
          /\ status.start_time = 0

\* a stop() made in state Running has signalled a daemon and returned
C11_Witness ==
    /\ op.name = "stop" /\ op.done /\ op.from = "Running"
    /\ snap.cycle = "stopped"
    /\ status.state = "Stopped"
    /\ \E d \in Daemons : <<d, "TERM">> \in signals

\* the stop() that ends the sequence start() from Stopped returning success,
\* refresh() finding a daemon dead, start() from Error, stop() has returned
RestartCycleDone == op.name = "stop" /\ op.done /\ snap.cycle = "restopped"

\* C12: after a successful start(), a refresh() that finds a daemon dead, a
\* second start() and a stop(), no rule is present more often than right
\* before the first start(), so that none of the rules the orchestrator
\* installed remains, and the forwarding flag has the value it had right
\* before the first start().
C12_RestartReleases ==
    RestartCycleDone =>
        /\ \A r \in BagToSet(rules) : CopiesIn(r, rules) <= CopiesIn(r, snap.rules)
        /\ ip_forward = snap.ip_forward

\* a start() called in state Error, running or just returned
StartFromError == op.name = "start" /\ op.from = "Error"

\* C13: a start() called in state Error enters interface detection with the
\* state Starting and an empty error message, keeps the state at Starting
\* until a step fails, and when it returns success the state is Running, no
\* message is stored, and the AP interface, both daemons and the three
\* rules of this run are in place.
C13_ErrorNotTerminal ==
    StartFromError =>
        /\ pc = "detect" => (status.state = "Starting" /\ status.error_msg = EmptyStr)
        /\ ~op.done => status.state \in {"Starting", "Error"}
        /\ (op.done /\ op.ok) =>
              /\ status.state = "Running"
              /\ status.error_msg = EmptyStr
              /\ status.ap_iface \in ifaces
              /\ alive = Daemons
              /\ \A r \in NatRules(status.wifi.name, status.ap_iface) :
                     CopiesIn(r, rules) >= 1

\* a start() called after refresh() reported a dead daemon has returned success
C13_Witness ==
    /\ StartFromError
    /\ op.done /\ op.ok
    /\ status.state = "Running"
    /\ snap.cycle = "restarted"

\* the process whose id status records for daemon d is gone
RecordedDead(d) ==
    /\ d \notin alive
    /\ PidOf(d) = (IF d = "hostapd" THEN status.hostapd_pid ELSE status.dnsmasq_pid)

\* the number of leases a call of refresh() can read
LeasesOnFile == IF DNSMASQ_LEASE_FILE \in files THEN leases ELSE 0

\* C14: a refresh() in state Running with a recorded daemon gone sets Error
\* and the message of a daemon that is gone, and leaves the client-interface
\* snapshot and the client count as they were; with both daemons alive it
\* keeps Running and stores the channel of the client link and the number of
\* leases; in every other state it leaves the status as it is.
C14_Refresh ==
    [][ hotspot_refresh_status =>
          IF status.state # "Running"
          THEN status' = status
          ELSE IF \E d \in Daemons : RecordedDead(d)
          THEN /\ status'.state = "Error"
               /\ status'.error_msg \in {MsgHostapdDied, MsgDnsmasqDied}
               /\ status'.error_msg = MsgHostapdDied => RecordedDead("hostapd")
               /\ status'.error_msg = MsgDnsmasqDied => RecordedDead("dnsmasq")
               /\ status'.wifi = status.wifi
               /\ status'.client_count = status.client_count
          ELSE /\ status'.state = "Running"
               /\ status'.error_msg = status.error_msg
               /\ status'.wifi = [name |-> status.wifi.name, channel |-> air]
               /\ status'.client_count = LeasesOnFile ]_vars

\* refresh() has reported the DHCP daemon dead while the stored channel and
\* client count were out of date
C14_Witness ==
    /\ status.state = "Error"
    /\ status.error_msg = MsgDnsmasqDied
    /\ "hostapd" \in alive
    /\ status.wifi.channel # air
    /\ status.client_count # LeasesOnFile

\* C15: no call of refresh() changes the configuration, the AP interface
\* name, a recorded process id, the saved forwarding value, the start time,
\* the rules, the forwarding flag, the interfaces and their addresses, the
\* processes, the override file or the temporary files; state, error_msg,
\* the client-interface snapshot and the client count are all it may write.
C15_RefreshFrame ==
    [][ hotspot_refresh_status =>
          /\ status'.config = status.config
          /\ status'.ap_iface = status.ap_iface
          /\ status'.hostapd_pid = status.hostapd_pid
          /\ status'.dnsmasq_pid = status.dnsmasq_pid
          /\ status'.ip_forward_was_enabled = status.ip_forward_was_enabled
          /\ status'.start_time = status.start_time
          /\ UNCHANGED <<rules, ip_forward, ifaces, addrs, alive, nm_conf,
                         files, hconf>> ]_vars

\* refresh() has found one client and later a dead daemon, the resources of
\* the run still in place
C15_Witness ==
    /\ status.state = "Error"
    /\ status.error_msg = MsgHostapdDied
    /\ status.client_count = 1
    /\ status.hostapd_pid = PidOf("hostapd")
    /\ status.ap_iface \in ifaces
    /\ rules # EmptyBag
    /\ "dnsmasq" \in alive

\* main's final hotspot_cleanup has returned, and it was made right after the
\* hotspot_cleanup of main's hotspot_stop
CleanupRepeated == pc = "exited" /\ op.name = "cleanup" /\ snap.cycle = "again"

\* C16: a hotspot_cleanup made right after another one leaves every rule
\* present as many times as the first one left it, and the forwarding flag
\* at the value the first one left.
C16_CleanupIdempotent ==
    CleanupRepeated =>
        /\ \A r \in BagToSet(rules) \cup BagToSet(snap.rules) :
               CopiesIn(r, rules) = CopiesIn(r, snap.rules)
        /\ ip_forward = snap.ip_forward

\* C17: when a start() has returned failure, and when a stop() has returned,
\* the override file of the network manager does not exist.
C17_OverrideRemoved ==
    (StartFailed \/ (op.name = "stop" /\ op.done)) => nm_conf = NoFile

\* C18: a start() never returns success, with state Running, unless each of
\* the three rules of the run is in the tables: a host on which a rule
\* cannot be installed gets failure and state Error instead.
C18_NatFatal ==
    (op.name = "start" /\ op.done /\ status.state = "Running") =>
        \A r \in NatRules(status.wifi.name, status.ap_iface) : CopiesIn(r, rules) >= 1

\* a start() has returned failure from create_ap_interface, all four
\* candidates tried
CreateFailed == StartFailed /\ op.at = "create_add"

\* C19: the message stored when interface creation has failed for all four
\* candidates tells the cause: the message stored on a host where all four
\* names are in use is not the one stored on a host whose driver lacks
\* AP/STA concurrency.
C19_MessageTellsCause ==
    CreateFailed => ((status.error_msg = MsgCreateFailed) <=> (ApNames \subseteq host.busy))

\* C20: the interface which detection hands to start() is a wireless
\* interface that is none of ap0, ap1, ap2, ap3, whatever interfaces exist;
\* detection reports that it found none only when no such interface exists.
C20_DetectSkipsOwn ==
    /\ (op.name = "start" /\ pc = "phy") => status.wifi.name \in ifaces \ ApNames
    /\ (StartFailed /\ op.at = "detect") => ifaces \ ApNames = {}

\* the fields of a line, separated by white space
RECURSIVE Fields(_)
Fields(line) ==
    LET t == SkipSpace(line)
        word == TakeWord(t, Len(t))
    IN  IF word = << >> THEN << >>
        ELSE <<word>> \o Fields(SubSeq(t, Len(word) + 1, Len(t)))

\* a line with the fields timestamp, mac, ip and hostname
WellFormedLease(line) == Len(Fields(line)) >= 4

\* the entry of a well-formed line: a hostname that is the sentinel becomes
\* the placeholder, every other hostname is copied
ListedClient(line) ==
    LET f == Fields(line)
    IN  [mac |-> f[2], ip |-> f[3],
         hostname |-> IF f[4] = HOST_NONE THEN UNKNOWN_HOST ELSE f[4]]

\* the entries of the well-formed lines, in file order
RECURSIVE ListedClients(_)
ListedClients(lines) ==
    IF lines = << >> THEN << >>
    ELSE (IF WellFormedLease(Head(lines)) THEN <<ListedClient(Head(lines))>> ELSE << >>)
         \o ListedClients(Tail(lines))

\* C21: a call of net_get_connected_clients stores no entry for a missing
\* file, and otherwise the entries of the well-formed lines of the file, in
\* file order and with '*' replaced by "(unknown)", up to max_clients.
C21_ClientsListed ==
    call.name = "net_get_connected_clients" =>
        LET all == IF disk.lease.exists THEN ListedClients(disk.lease.lines) ELSE << >>
        IN  call.clients = SubSeq(all, 1, Min(Len(all), call.max_clients))

\* the new content a complete hotspot_save_config(config) leaves on the path
SavedFile(config) == [exists |-> TRUE, text |-> SaveText(config)]

\* C22: a load into a default-initialised config that follows a save which
\* returned true reports "values applied" and yields the saved SSID,
\* passphrase, channel, max_clients and hidden flag.
C22_RoundTrip ==
    (call.name = "hotspot_load_config" /\ call.saved # << >>) =>
        (call.any /\ call.config = call.saved[1])

\* the lines of a text, without their newlines
RECURSIVE TextLines(_)
TextLines(text) ==
    IF text = << >> THEN << >>
    ELSE LET nl == strchr(text, NL)
         IN  IF nl = 0 THEN <<text>>
             ELSE <<SubSeq(text, 1, nl - 1)>> \o TextLines(SubSeq(text, nl + 1, Len(text)))

\* a decimal number: an optional minus sign and at least one digit, no more
IsNumber(s) ==
    LET d == IF s # << >> /\ s[1] = "-" THEN Tail(s) ELSE s
    IN  d # << >> /\ \A i \in 1..Len(d) : isdigit(d[i])

\* a line that assigns a value of the key's type to a key of the file format
WellFormedAssignment(line) ==
    LET eq == strchr(line, "=")
        key == SubSeq(line, 1, eq - 1)
        val == SubSeq(line, eq + 1, Len(line))
    IN  /\ eq > 0
        /\ \/ key \in {KEY_SSID, KEY_PASSWORD}
           \/ key \in {KEY_CHANNEL, KEY_MAX_CLIENTS, KEY_HIDDEN} /\ IsNumber(val)

\* a malformed file: it has lines, none of them a comment or a well-formed
\* assignment
Malformed(file) ==
    /\ file.exists
    /\ \A i \in 1..Len(TextLines(file.text)) :
         LET line == TextLines(file.text)[i]
         IN  line # << >> /\ line[1] # "#" /\ ~WellFormedAssignment(line)
    /\ TextLines(file.text) # << >>

\* no line of the file assigns to the key
KeyAbsent(file, key) ==
    \/ ~file.exists
    \/ \A i \in 1..Len(TextLines(file.text)) :
         LET line == TextLines(file.text)[i]
         IN  \/ Len(line) <= Len(key)
             \/ SubSeq(line, 1, Len(key) + 1) # key \o <<"=">>

\* C23: a load of a missing or malformed file returns "no values applied"
\* and leaves the config at its defaults; a field whose key the file does
\* not hold keeps its default.
C23_LoadKeepsDefaults ==
    call.name = "hotspot_load_config" =>
        /\ (~disk.config.exists \/ Malformed(disk.config)) =>
               (~call.any /\ call.config = hotspot_default_config)
        /\ KeyAbsent(disk.config, KEY_SSID) =>
               call.config.ssid = hotspot_default_config.ssid
        /\ KeyAbsent(disk.config, KEY_PASSWORD) =>
               call.config.password = hotspot_default_config.password
        /\ KeyAbsent(disk.config, KEY_CHANNEL) =>
               call.config.channel = hotspot_default_config.channel
        /\ KeyAbsent(disk.config, KEY_MAX_CLIENTS) =>
               call.config.max_clients = hotspot_default_config.max_clients
        /\ KeyAbsent(disk.config, KEY_HIDDEN) =>
               call.config.hidden = hotspot_default_config.hidden

\* C24: during and after hotspot_save_config the persisted path holds the
\* complete previous content or the complete new content; when the save
\* returns false the previous content is there and no temp file is left.
C24_AtomicSave ==
    call.name = "hotspot_save_config" =>
        /\ disk.config \in {call.before, SavedFile(call.config)}
        /\ (call.pc = "returned" /\ ~call.ok) =>
               (disk.config = call.before /\ disk.tmp = Missing)

\* the block of the report under a header: the header line and the entries
\* ("*" lines) that follow it
RECURSIVE BlockEnd(_, _)
BlockEnd(report, i) ==
    IF i < Len(report) /\ report[i + 1][1] = "*" THEN BlockEnd(report, i + 1) ELSE i

Blocks(report) ==
    {h..BlockEnd(report, h) :
        h \in {i \in 1..Len(report) : report[i][1] \in {HDR_MODES, HDR_COMBINATIONS}}}

BlockMentions(report, block, word) == \E i \in block : HasWord(report[i], word)

\* C25: net_check_ap_support returns true only when one block of the report
\* (the mode list or the combination list) mentions both "managed" and "AP".
C25_SingleBlock ==
    (call.name = "net_check_ap_support" /\ call.supports_ap) =>
        \E block \in Blocks(call.report) :
            /\ BlockMentions(call.report, block, "managed")
            /\ BlockMentions(call.report, block, "AP")

\* main has returned
Exited == pc = "exited"

\* C26: when the program exits, whatever was done before, no supervised
\* daemon is alive, no rule beyond those found at launch and no AP interface
\* is left, the network-manager override is removed and no temp file is left.
C26_CleanExit ==
    Exited =>
        /\ alive = {}
        /\ \A r \in BagToSet(rules) : CopiesIn(r, rules) <= CopiesIn(r, host.rules)
        /\ ifaces \cap ApNames = {}
        /\ nm_conf = NoFile
        /\ files \cap TempFiles = {}

\* a step in which a signal handler ran: a flag went from 0 to 1
HandlerRan ==
    \/ tui.g_shutdown = 0 /\ tui'.g_shutdown = 1
    \/ tui.g_resize = 0 /\ tui'.g_resize = 1

\* the call in progress returns
CallReturns == op' = [op EXCEPT !.done = TRUE, !.ok = op'.ok, !.at = op'.at]

\* C27: start(), stop() and refresh() never overlap: while one of them is in
\* progress no other call begins, the only change to the call history being
\* its own return; and a step of a signal handler changes the flags alone.
C27_Serialized ==
    [][ /\ HandlerRan => UNCHANGED progVars
        /\ (~op.done /\ op' # op) => CallReturns ]_vars

\* a signal handler has run and a start() is in progress
C27_Witness ==
    /\ op.name = "start" /\ ~op.done
    /\ tui.g_shutdown = 1 /\ tui.g_resize = 1

\* C28: the passphrase of the active config has at least 8 characters, after
\* every load of a persisted file as well as in the defaults.
C28_PassphraseValid ==
    /\ Len(hotspot_default_config.password) >= 8
    /\ call.name = "hotspot_load_config" => Len(call.config.password) >= 8

\* the second launch of the negotiation was Phase 2: minimal set, asked for
\* right after Phase 1
Phase2Tried == Len(neg.tries) >= 2 /\ neg.tries[2].minimal

\* a launch of Phase 3 was made: a full feature set after the first launch
Phase3Tried == \E k \in 2..Len(neg.tries) : ~neg.tries[k].minimal

\* the channel the first launch was configured with
ResolvedChannel == neg.tries[1].channel

\* C29: Phase 2 is attempted if and only if Phase 1 failed without the
\* channel rejection in its log; Phase 3 is attempted if and only if the
\* last failed attempt before it reported the rejection and the resolved
\* channel is in the 5 GHz range; no launch follows a launch that succeeded.
C29_PhaseGating ==
    /\ pc = "phase2" => (~neg.tries[1].ok /\ ~loc.channel_rejected)
    /\ (pc = "phase3" /\ ~Phase2Tried) => (~neg.tries[1].ok /\ loc.channel_rejected)
    /\ pc = "hostapd_failed" =>
          (Phase3Tried <=> (loc.channel_rejected /\ is_5ghz_channel(ResolvedChannel)))
    /\ pc = "phase3_full" =>
          (loc.channel_rejected /\ is_5ghz_channel(ResolvedChannel))
    /\ \A k \in 1..(Len(neg.tries) - 1) : ~neg.tries[k].ok

\* the last launch of hostapd found the daemon running
HostapdConfirmed ==
    /\ neg.tries # << >>
    /\ neg.tries[Len(neg.tries)].ok
    /\ status.hostapd_pid > 0

\* C30: within every start(), hostapd is launched only on an AP interface
\* that exists; the interface is brought up and given the gateway address
\* only after hostapd was found running; dnsmasq is launched only after the
\* address assignment; the NAT rules are applied only after dnsmasq was
\* found running; and the state becomes Running only after all of these.
C30_StartOrder ==
    [][ /\ Len(neg'.tries) > Len(neg.tries) => status.ap_iface \in ifaces
        /\ (pc = "assign_ip" /\ pc' # pc) => HostapdConfirmed
        /\ addrs' \ addrs # {} => (pc = "assign_ip" /\ HostapdConfirmed)
        /\ (pc = "dnsmasq" /\ pc' # pc) => status.ap_iface \in addrs
        /\ "dnsmasq" \in alive' \ alive => status.ap_iface \in addrs
        /\ (pc = "nat" /\ pc' # pc) => ("dnsmasq" \in alive /\ status.dnsmasq_pid > 0)
        /\ (status'.state = "Running" /\ status.state # "Running") =>
              /\ pc = "nat"
              /\ status.ap_iface \in ifaces /\ status.ap_iface \in addrs
              /\ "hostapd" \in alive /\ "dnsmasq" \in alive
              /\ status.hostapd_pid > 0 /\ status.dnsmasq_pid > 0
              /\ rules' = setup_nat(rules, status.wifi.name, status.ap_iface)
      ]_vars

\* a start() has returned success: interface with its address, both daemons
\* and the state Running
C30_Witness ==
    /\ op.name = "start" /\ op.done /\ op.ok
    /\ status.state = "Running"
    /\ status.ap_iface \in addrs
    /\ alive = Daemons

\* the positions of hotspot_cleanup, in the order of its statements
CleanupSteps == <<"cl_hostapd", "cl_dnsmasq", "cl_nat", "cl_iface", "cl_nm", "cl_files">>

InCleanup == \E k \in 1..Len(CleanupSteps) : pc = CleanupSteps[k]

\* C31: every cleanup() terminates the AP daemon, then the DHCP daemon, then
\* removes the rules and restores the flag, then deletes the AP interface,
\* then removes the network-manager override, and only then deletes the
\* temporary files; no step is skipped, whatever the state.
C31_CleanupOrder ==
    [][ /\ \A k \in 1..(Len(CleanupSteps) - 1) :
             /\ pc = CleanupSteps[k] => pc' \in {pc, CleanupSteps[k + 1]}
             /\ (pc' = CleanupSteps[k + 1] /\ pc' # pc) => pc = CleanupSteps[k]
        /\ (pc = "cl_dnsmasq" /\ pc' # pc) => "hostapd" \notin alive
        /\ (pc = "cl_nat" /\ pc' # pc) => alive = {}
        /\ (InCleanup /\ (rules' # rules \/ ip_forward' # ip_forward)) =>
               (pc = "cl_nat" /\ alive = {})
        /\ (InCleanup /\ ifaces' # ifaces) => pc = "cl_iface"
        /\ (InCleanup /\ nm_conf' # nm_conf) =>
               (pc = "cl_nm" /\ status.ap_iface \notin ifaces)
        /\ files' # files /\ files' \subseteq files =>
               /\ pc = "cl_files"
               /\ alive = {} /\ status.ap_iface \notin ifaces /\ nm_conf = NoFile
      ]_vars

\* a stop() of a running hotspot has reached the deletion of the files
C31_Witness ==
    /\ pc = "cl_files"
    /\ op.name = "stop" /\ op.from = "Running"
    /\ files # {}

\* C32: when the create command for a candidate is issued the override names
\* that candidate, and when create_ap_interface has returned success the
\* override names the adopted interface.
C32_OverrideBeforeCreate ==
    /\ pc = "create_add" => nm_conf = ap_names[idx]
    /\ pc = "gen_hostapd" => nm_conf = status.ap_iface

Launched == Len(neg'.tries) > Len(neg.tries)

\* C34: a launch attempt of hostapd counts as success only when a process id
\* of a live hostapd was found after it; an attempt with no process id is a
\* failure even when the launch command reported success, and after a failed
\* attempt no hostapd is left alive.
C34_LivenessConfirmed ==
    [][ /\ (Launched /\ pc' = "assign_ip") =>
               (status'.hostapd_pid > 0 /\ "hostapd" \in alive')
        /\ (Launched /\ status'.hostapd_pid <= 0) => pc' # "assign_ip"
        /\ (Launched /\ pc' # "assign_ip") => "hostapd" \notin alive'
        /\ (pc' = "assign_ip" /\ pc' # pc) => Launched
      ]_vars

\* in a start() made with the pid of a dead hostapd still recorded, the
\* launch command succeeded, pidof found nothing and Phase 2 is next
C34_Witness ==
    /\ snap.cycle = "restarting"
    /\ pc = "phase2"
    /\ Len(neg.tries) = 1 /\ ~neg.tries[1].ok
    /\ status.hostapd_pid = 0
    /\ "hostapd" \notin alive

\* the signals of a kill_process so far: none for a pid <= 0, and SIGKILL for
\* the process of the pid only after a SIGTERM to it and 30 polls
KillEscalates ==
    InKill =>
      /\ call.pid <= 0 => call.sent = <<>>
      /\ \A k \in 1..Len(call.sent), d \in DaemonsWithPid(call.pid) :
           call.sent[k] = <<d, "KILL">> =>
             /\ k = 2
             /\ call.sent[1] = <<d, "TERM">>
             /\ call.i = KillPolls
      /\ (KillReturned /\ call.i < KillPolls) =>
           \A k \in 1..Len(call.sent), d \in DaemonsWithPid(call.pid) :
             call.sent[k] # <<d, "KILL">>

\* a process still alive when the polls ran out gets SIGKILL
KillForced ==
    (KillAt("poll") /\ call.i = KillPolls /\ KillTarget # {} /\ call' # call) =>
        /\ \E d \in KillTarget : call'.sent = Append(call.sent, <<d, "KILL">>)
        /\ KillTarget \cap alive' = {}

\* C35: kill_process sends SIGTERM first to a pid > 0, sends no SIGKILL to a
\* process that exits within the 30 polls, sends SIGKILL to one still alive
\* after them, sends no signal for a pid <= 0, and always returns.
C35_Escalation ==
    /\ []KillEscalates
    /\ [][KillForced]_vars
    /\ (KillRunning ~> KillReturned)

\* hostapd got SIGTERM, stayed alive for 30 polls, got SIGKILL, and the call
\* has returned
C35_Witness ==
    /\ KillReturned
    /\ call.pid = 1
    /\ call.i = KillPolls
    /\ call.sent = << <<"hostapd", "TERM">>, <<"hostapd", "KILL">> >>
    /\ "hostapd" \notin alive

\* what the steps of a start() leave when each of them succeeded: the AP
\* interface with the gateway address, both daemons with their pids recorded,
\* forwarding on and the three rules of the run
StepsSucceeded ==
    /\ status.wifi.name # ""
    /\ status.ap_iface \in ifaces /\ status.ap_iface \in addrs
    /\ alive = Daemons
    /\ status.hostapd_pid > 0 /\ status.dnsmasq_pid > 0
    /\ ip_forward = 1
    /\ \A r \in NatRules(status.wifi.name, status.ap_iface) : CopiesIn(r, rules) >= 1

\* C36: a start() that has returned gave success exactly when the state is
\* Running; a success came from the last statement with every step
\* succeeded, start_time set, client_count 0 and error_msg empty; a failure
\* left state Error, and start_time at 0 when the call began in Stopped.
C36_StartResult ==
    (op.name = "start" /\ op.done) =>
        /\ op.ok <=> status.state = "Running"
        /\ op.ok =>
              /\ op.at = "nat"
              /\ StepsSucceeded
              /\ status.start_time # 0
              /\ status.client_count = 0
              /\ status.error_msg = EmptyStr
        /\ ~op.ok =>
              /\ status.state = "Error"
              /\ op.from = "Stopped" => status.start_time = 0

\* C37: while the state is Running the editor is never in edit mode and no
\* step changes a field of status.config: the config of the start() that
\* succeeded stays the config until the state leaves Running.
C37_ConfigFrozen ==
    /\ [](status.state = "Running" => ~tui.editing)
    /\ [][status.state = "Running" => status'.config = status.config]_vars

\* the hotspot runs with an edited SSID and password while the config screen
\* has the hidden flag selected, where Enter would toggle it
C37_Witness ==
    /\ status.state = "Running"
    /\ pc = "idle"
    /\ Screen = "SCREEN_CONFIG"
    /\ SelectedField = "CFG_HIDDEN"
    /\ status.config.ssid # SSID_DEFAULT
    /\ status.config.password # PASSWORD_DEFAULT

\* C38: whenever the state is Running, hostapd_pid and dnsmasq_pid are
\* positive, status.ap_iface is one of ap0..ap3 and start_time is not zero.
C38_RunningFields ==
    status.state = "Running" =>
        /\ status.hostapd_pid > 0
        /\ status.dnsmasq_pid > 0
        /\ status.ap_iface \in ApNames
        /\ status.start_time # 0

\* the hotspot runs on the second candidate, ap0 being in use
C38_Witness ==
    /\ status.state = "Running"
    /\ pc = "idle"
    /\ status.ap_iface = "ap1"
    /\ status.hostapd_pid > 0 /\ status.dnsmasq_pid > 0
    /\ status.start_time # 0

\* C39: a negotiation launches hostapd at most four times, and no two of its
\* launches have the same channel and the same feature set.
C39_AttemptsDistinct ==
    /\ Len(neg.tries) <= 4
    /\ \A i, j \in 1..Len(neg.tries) :
         (i < j) => \/ neg.tries[i].channel # neg.tries[j].channel
                    \/ neg.tries[i].minimal # neg.tries[j].minimal

\* C40: no teardown removes a rule the orchestrator did not install: at every
\* moment each rule the host had when the program was launched is in the
\* tables at least as often as it was then.
C40_HostRulesKept ==
    \A r \in BagToSet(host.rules) : CopiesIn(r, rules) >= CopiesIn(r, host.rules)

=============================================================================
